---- MODULE Spec2Model ----
(***************************************************************************)
(* A model of the configuration resolver of tox (src/tox/config.py):       *)
(* SectionReader, Replacer, SetenvDict, _ArgvlistReader, CommandParser and *)
(* the part of parseini that builds the per-environment configurations.    *)
(*                                                                         *)
(* Strings are sequences of one-character strings, so that the regular     *)
(* expressions and scanners of the source can be modelled character by     *)
(* character.  None is the empty tuple and a present optional value v is   *)
(* the one-element tuple <<v>>.                                            *)
(***************************************************************************)
EXTENDS Integers, Sequences, FiniteSets, TLC

\* ------------------------------------------------------------------------
\* Optional values and small string helpers
\* ------------------------------------------------------------------------

None == <<>>

Some(v) == <<v>>

Min(S) == CHOOSE x \in S : \A y \in S : x <= y

Max(S) == CHOOSE x \in S : \A y \in S : x >= y

\* TRUE; evaluating it evaluates x, which keeps an accumulating scan from
\* building one deeply nested expression
Strict(x) == x = x

\* s[a..b], the empty string when the range is empty
Sub(s, a, b) == IF a > b THEN <<>> ELSE SubSeq(s, a, b)

From(s, a) == Sub(s, a, Len(s))

\* `c in s`
HasChar(s, c) == \E i \in 1..Len(s) : s[i] = c

\* string.whitespace, restricted to the characters the model's strings use
Whitespace == {" ", "\n", "\t"}

\* the least index >= i of s holding a character of C, or 0
FindFrom(s, i, C) ==
  LET I == {x \in i..Len(s) : s[x] \in C}
  IN  IF I = {} THEN 0 ELSE Min(I)

\* str.startswith / str.endswith
StartsWith(s, p) == Len(s) >= Len(p) /\ Sub(s, 1, Len(p)) = p

EndsWith(s, p) == Len(s) >= Len(p) /\ Sub(s, Len(s) - Len(p) + 1, Len(s)) = p

\* str.rstrip(), str.lstrip(), str.strip()
RECURSIVE RStrip(_)
RStrip(s) ==
  IF s # <<>> /\ s[Len(s)] \in Whitespace THEN RStrip(Sub(s, 1, Len(s) - 1)) ELSE s

RECURSIVE LStrip(_)
LStrip(s) ==
  IF s # <<>> /\ s[1] \in Whitespace THEN LStrip(Tail(s)) ELSE s

Strip(s) == LStrip(RStrip(s))

\* concatenation of a sequence of strings
RECURSIVE Concat(_)
Concat(ss) == IF ss = <<>> THEN <<>> ELSE Head(ss) \o Concat(Tail(ss))

\* sep.join(ss)
RECURSIVE Join(_, _)
Join(sep, ss) ==
  IF ss = <<>> THEN <<>>
  ELSE IF Len(ss) = 1 THEN ss[1]
  ELSE ss[1] \o sep \o Join(sep, Tail(ss))

\* s.split(c) for a one-character separator c
RECURSIVE Split(_, _)
Split(s, c) ==
  LET i == FindFrom(s, 1, {c})
  IN  IF i = 0 THEN <<s>> ELSE <<Sub(s, 1, i - 1)>> \o Split(From(s, i + 1), c)

\* str.splitlines(): like split on newline, but an empty string has no
\* lines and a trailing newline opens no last empty line
SplitLines(s) ==
  IF s = <<>> THEN <<>>
  ELSE IF s[Len(s)] = "\n" THEN Split(Sub(s, 1, Len(s) - 1), "\n")
  ELSE Split(s, "\n")

\* s.replace(a, b) for a two-character a and one-character b
RECURSIVE Replace2(_, _, _)
Replace2(s, a, b) ==
  IF Len(s) < 2 THEN s
  ELSE IF Sub(s, 1, 2) = a THEN b \o Replace2(From(s, 3), a, b)
  ELSE <<s[1]>> \o Replace2(Tail(s), a, b)

\* py.path.local.join(path, abs=True): an absolute path replaces the base,
\* a relative one is appended to it
PathJoin(base, path) ==
  IF StartsWith(path, <<"/">>) THEN path
  ELSE IF path = <<>> THEN base
  ELSE base \o <<"/">> \o path

\* ------------------------------------------------------------------------
\* Replacer.RE_ITEM_REF
\* ------------------------------------------------------------------------

NoMatch == [ok |-> FALSE, end |-> 0, sub_type |-> None, value |-> <<>>,
            default |-> None]

\* [^:,{}]* then (?::([^{}]*))? then the closing brace, on a brace-free t:
\* the greedy run stops at the first ':' or ','; a ',' there fails
TailParse(t) ==
  LET n == FindFrom(t, 1, {":", ","})
  IN  IF n = 0 THEN [ok |-> TRUE, value |-> t, default |-> None]
      ELSE IF t[n] = ":"
           THEN [ok |-> TRUE, value |-> Sub(t, 1, n - 1),
                 default |-> Some(From(t, n + 1))]
           ELSE [ok |-> FALSE, value |-> <<>>, default |-> None]

\* (?P<substitution_value>(?:\[[^,{}]*\])?[^:,{}]*)(?::(?P<default_value>..))?
\* on the brace-free r: the bracket group is tried first, its content as
\* long as possible (the last ']' with no ',' before it), then shorter,
\* then without the group
ParseValue(r) ==
  LET P == {p \in 2..Len(r) :
              /\ r[1] = "["
              /\ r[p] = "]"
              /\ \A q \in 2..(p - 1) : r[q] # ","
              /\ TailParse(From(r, p + 1)).ok}
  IN  IF P # {}
      THEN LET p == Max(P)
               t == TailParse(From(r, p + 1))
           IN  [ok |-> TRUE, value |-> Sub(r, 1, p) \o t.value,
                default |-> t.default]
      ELSE TailParse(r)

\* the match of RE_ITEM_REF that starts at index i of s, if any
MatchAt(s, i) ==
  IF \/ i < 1 \/ i > Len(s)
     \/ s[i] # "{"
     \/ (i > 1 /\ s[i - 1] = "\\")
  THEN NoMatch
  ELSE
    LET j == FindFrom(s, i + 1, {"{", "}"})
    IN  IF j = 0 \/ s[j] # "}" THEN NoMatch
        ELSE
          LET b == Sub(s, i + 1, j - 1)
              c == FindFrom(b, 1, {":"})
              typed == c > 1 /\ ~HasChar(Sub(b, 1, c - 1), "[")
              v1 == IF typed THEN ParseValue(From(b, c + 1))
                    ELSE [ok |-> FALSE, value |-> <<>>, default |-> None]
              v2 == ParseValue(b)
          IN  IF v1.ok
              THEN [ok |-> TRUE, end |-> j, sub_type |-> Some(Sub(b, 1, c - 1)),
                    value |-> v1.value, default |-> v1.default]
              ELSE IF v2.ok
              THEN [ok |-> TRUE, end |-> j, sub_type |-> None,
                    value |-> v2.value, default |-> v2.default]
              ELSE NoMatch

\* the start of the leftmost match at or after pos, or 0
NextMatch(s, pos) ==
  LET I == {i \in pos..Len(s) : s[i] = "{" /\ MatchAt(s, i).ok}
  IN  IF I = {} THEN 0 ELSE Min(I)

\* is_section_substitution: re.compile("{\[[^{}\s]+\]\S+?}").match
is_section_substitution(s) ==
  /\ Len(s) >= 6
  /\ s[1] = "{"
  /\ s[2] = "["
  /\ \E p \in 4..Len(s) :
       /\ s[p] = "]"
       /\ \A x \in 3..(p - 1) : s[x] \notin ({"{", "}"} \cup Whitespace)
       /\ \E q \in (p + 2)..Len(s) :
            /\ s[q] = "}"
            /\ \A x \in (p + 1)..(q - 1) : s[x] \notin Whitespace

\* ------------------------------------------------------------------------
\* CommandParser.words
\* ------------------------------------------------------------------------

\* word_has_ended(), on the parser state ps and the current character
word_has_ended(ps, cur_char) ==
  \/ /\ cur_char \in Whitespace
     /\ ps.word # <<>>
     /\ ps.word[Len(ps.word)] \notin Whitespace
  \/ /\ cur_char = "{"
     /\ ps.depth = 0
     /\ ~EndsWith(ps.word, <<"\\">>)
  \/ /\ ps.depth = 0
     /\ ps.word # <<>>
     /\ ps.word[Len(ps.word)] = "}"
  \/ /\ cur_char \notin Whitespace
     /\ ps.word # <<>>
     /\ Strip(ps.word) = <<>>

\* yield_this_word(): an empty word is not appended
yield_this_word(ps) ==
  [ps EXCEPT !.word = <<>>,
             !.yield_words = IF ps.word # <<>> THEN Append(@, ps.word) ELSE @]

yield_if_word_ended(ps, cur_char) ==
  IF word_has_ended(ps, cur_char) THEN yield_this_word(ps) ELSE ps

accumulate(ps, cur_char) == [ps EXCEPT !.word = Append(@, cur_char)]

\* the loop splitting at whitespace without keeping it
WordsStepSplit(ps, cur_char) ==
  IF cur_char \in Whitespace
  THEN IF ps.depth = 0 THEN yield_this_word(ps) ELSE accumulate(ps, cur_char)
  ELSE IF cur_char = "{"
  THEN [accumulate(yield_if_word_ended(ps, cur_char), cur_char)
          EXCEPT !.depth = @ + 1]
  ELSE IF cur_char = "}"
  THEN [accumulate(ps, cur_char) EXCEPT !.depth = @ - 1]
  ELSE accumulate(yield_if_word_ended(ps, cur_char), cur_char)

\* one turn of the loop over the command's characters
WordsStep(ps, cur_char) ==
  IF cur_char \in Whitespace
  THEN accumulate(IF ps.depth = 0 THEN yield_if_word_ended(ps, cur_char) ELSE ps,
                  cur_char)
  ELSE IF cur_char = "{"
  THEN [accumulate(yield_if_word_ended(ps, cur_char), cur_char)
          EXCEPT !.depth = @ + 1]
  ELSE IF cur_char = "}"
  THEN [accumulate(ps, cur_char) EXCEPT !.depth = @ - 1]
  ELSE accumulate(yield_if_word_ended(ps, cur_char), cur_char)

\* the loop over the command's characters, from the i-th on; the state is
\* evaluated at every character
RECURSIVE WordsFrom(_, _, _)
WordsFrom(ps, command, i) ==
  IF i > Len(command) \/ ~Strict(ps) THEN ps
  ELSE WordsFrom(WordsStep(ps, command[i]), command, i + 1)

\* CommandParser(command).words()
words(command) ==
  LET ps == WordsFrom([word |-> <<>>, depth |-> 0, yield_words |-> <<>>], command, 1)
  IN  IF Strip(ps.word) # <<>> THEN yield_this_word(ps).yield_words
      ELSE ps.yield_words

\* ------------------------------------------------------------------------
\* subprocess.list2cmdline and shlex (posix, whitespace_split, escape = '')
\* ------------------------------------------------------------------------

\* n backslashes
RECURSIVE Backslashes(_)
Backslashes(n) == IF n <= 0 THEN <<>> ELSE <<"\\">> \o Backslashes(n - 1)

\* the characters of one argument as list2cmdline writes them, bs being
\* the number of backslashes buffered so far
RECURSIVE QuoteArg(_, _, _)
QuoteArg(arg, bs, needquote) ==
  IF arg = <<>>
  THEN Backslashes(bs) \o (IF needquote THEN Backslashes(bs) ELSE <<>>)
  ELSE IF arg[1] = "\\" THEN QuoteArg(Tail(arg), bs + 1, needquote)
  ELSE IF arg[1] = "\""
  THEN Backslashes(2 * bs) \o <<"\\", "\"">> \o QuoteArg(Tail(arg), 0, needquote)
  ELSE Backslashes(bs) \o <<arg[1]>> \o QuoteArg(Tail(arg), 0, needquote)

RECURSIVE list2cmdline(_)
list2cmdline(seq) ==
  IF seq = <<>> THEN <<>>
  ELSE
    LET arg == seq[Len(seq)]
        needquote == HasChar(arg, " ") \/ HasChar(arg, "\t") \/ arg = <<>>
        front == list2cmdline(Sub(seq, 1, Len(seq) - 1))
    IN  front \o (IF front # <<>> THEN <<" ">> ELSE <<>>)
              \o (IF needquote THEN <<"\"">> ELSE <<>>)
              \o QuoteArg(arg, 0, needquote)
              \o (IF needquote THEN <<"\"">> ELSE <<>>)

ShlexQuotes == {"'", "\""}

ShlexWhitespace == {" ", "\t", "\n"}

\* shlex.read_token repeated to the end of s.  st is " " (between tokens),
\* "a" (in a token) or the open quote character; the result is the token
\* list, or ok = FALSE for "No closing quotation"
RECURSIVE ShlexScan(_, _, _, _, _, _)
ShlexScan(s, i, st, tok, quoted, out) ==
  LET emit == IF tok # <<>> \/ quoted THEN Append(out, tok) ELSE out
      eol == FindFrom(s, i, {"\n"})
      afterline == IF eol = 0 THEN Len(s) + 1 ELSE eol + 1
  IN
  IF i > Len(s) \/ ~Strict(tok) \/ ~Strict(out)
  THEN IF st \in ShlexQuotes THEN [ok |-> FALSE, toks |-> <<>>]
       ELSE [ok |-> TRUE, toks |-> emit]
  ELSE IF st = " "
  THEN IF s[i] \in ShlexWhitespace THEN ShlexScan(s, i + 1, " ", <<>>, FALSE, out)
       ELSE IF s[i] = "#" THEN ShlexScan(s, afterline, " ", <<>>, FALSE, out)
       ELSE IF s[i] \in ShlexQuotes THEN ShlexScan(s, i + 1, s[i], <<>>, FALSE, out)
       ELSE ShlexScan(s, i + 1, "a", <<s[i]>>, FALSE, out)
  ELSE IF st \in ShlexQuotes
  THEN IF s[i] = st THEN ShlexScan(s, i + 1, "a", tok, TRUE, out)
       ELSE ShlexScan(s, i + 1, st, Append(tok, s[i]), TRUE, out)
  ELSE IF s[i] \in ShlexWhitespace THEN ShlexScan(s, i + 1, " ", <<>>, FALSE, emit)
       ELSE IF s[i] = "#" THEN ShlexScan(s, afterline, " ", <<>>, FALSE, emit)
       ELSE IF s[i] \in ShlexQuotes THEN ShlexScan(s, i + 1, s[i], tok, quoted, out)
       ELSE ShlexScan(s, i + 1, "a", Append(tok, s[i]), quoted, out)

\* list(shlexer) in processcommand
ShlexSplit(s) == ShlexScan(s, 1, " ", <<>>, FALSE, <<>>)

\* ------------------------------------------------------------------------
\* State
\* ------------------------------------------------------------------------

VARIABLES
  cfg,               \* the ini file: section name -> (key -> raw value)
  environ,           \* os.environ: name -> value
  option,            \* the parsed command line options
  interpreters,      \* what config.interpreters answers: "found" or "notfound"
  section_name,      \* SectionReader.section_name; empty while no reader exists
  fallbacksections,  \* SectionReader.fallbacksections
  factors,           \* SectionReader.factors: None for the default (), or a set
  subs,              \* SectionReader._subs, the namespace
  posargs,           \* SectionReader.posargs
  config,            \* the Config object
  vc,                \* the TestenvConfig that make_envconfig is building
  subststack,        \* SectionReader._subststack
  setenv,            \* SectionReader._setenv, a SetenvDict when active
  frames,            \* the call stack, innermost call last
  mode,              \* "idle", "run", "return" or "raise"
  retval,            \* the value a call returns
  error,             \* the exception being raised
  call,              \* the operation invoked last
  outcome            \* how it ended: "none", "returned" or "raised"

inputVars == <<cfg, environ, option, interpreters>>

readerVars == <<section_name, fallbacksections, factors, subs, posargs>>

machineVars == <<subststack, setenv, frames, mode, retval, error, config, vc>>

vars == <<inputVars, readerVars, machineVars, call, outcome>>

Range(f) == {f[x] : x \in DOMAIN f}

Last(s) == s[Len(s)]

Front(s) == Sub(s, 1, Len(s) - 1)

\* the depth at which the interpreter raises RecursionError (CPython's
\* sys.getrecursionlimit(), scaled down to the model's call stack)
RecursionLimit == 12

\* a call-stack frame; every kind of frame uses the fields it needs
Frame0 ==
  [kind |-> "", phase |-> "", getter |-> "", name |-> <<>>, default |-> None,
   replace |-> FALSE, value |-> <<>>, pos |-> 1, out |-> <<>>,
   crossonly |-> FALSE, entry |-> <<>>, wait |-> "", dflt |-> None,
   lines |-> <<>>, cur |-> <<>>, cmds |-> <<>>, wordsq |-> <<>>,
   newcommand |-> <<>>, word |-> <<>>, bdefault |-> None, envs |-> {},
   known |-> {}, saved |-> <<>>, depth |-> 0]

\* the part of the state the resolver's steps change
Machine ==
  [frames |-> frames, subststack |-> subststack, setenv |-> setenv,
   mode |-> mode, retval |-> retval, error |-> error,
   section_name |-> section_name, fallbacksections |-> fallbacksections,
   factors |-> factors, subs |-> subs, posargs |-> posargs,
   config |-> config, vc |-> vc]

Top(m) == m.frames[Len(m.frames)]

SetTop(m, f) == [m EXCEPT !.frames[Len(m.frames)] = f]

PopFrame(m) == [m EXCEPT !.frames = Front(@)]

Raise(m, e) == [m EXCEPT !.mode = "raise", !.error = e]

Return(m, v) == [m EXCEPT !.mode = "return", !.retval = v]

\* a call: the interpreter refuses it at the recursion limit
PushFrame(m, f) ==
  IF Len(m.frames) >= RecursionLimit THEN Raise(m, "RecursionError")
  ELSE [m EXCEPT !.frames = Append(@, f), !.mode = "run"]

\* ------------------------------------------------------------------------
\* SectionReader._replace and Replacer
\* ------------------------------------------------------------------------

\* what handling one match comes to: a replacement text, an exception, a
\* nested _replace call or an environment lookup
EValue(v) ==
  [t |-> "value", v |-> v, e |-> "", name |-> None, sec |-> <<>>,
   crossonly |-> FALSE, dflt |-> None]

ERaise(e) == [EValue(<<>>) EXCEPT !.t = "raise", !.e = e]

ECall(value, name, sec, crossonly) ==
  [EValue(value) EXCEPT !.t = "call", !.name = name, !.sec = sec,
                        !.crossonly = crossonly]

EEnv(name, dflt) == [EValue(<<>>) EXCEPT !.t = "env", !.name = name, !.dflt = dflt]

\* SectionReader._replace(value, name, section_name, crossonly), called
\* with a value that holds a '{': pushes (section_name, name) and starts
\* Replacer(self, crossonly).do_replace(value)
CallReplace(m, value, name, sec, crossonly) ==
  LET entry == <<IF sec # <<>> THEN sec ELSE section_name, name>>
  IN  IF Len(m.frames) >= RecursionLimit THEN Raise(m, "RecursionError")
      ELSE [m EXCEPT
              !.frames = Append(@, [Frame0 EXCEPT !.kind = "replace",
                                                  !.value = value,
                                                  !.crossonly = crossonly,
                                                  !.entry = entry]),
              !.subststack = Append(@, entry),
              !.mode = "run"]

\* _substitute_from_other_section without the look at the stack
SubstituteUnchecked(key, crossonly, stack) ==
  IF StartsWith(key, <<"[">>) /\ HasChar(key, "]")
  THEN LET i == FindFrom(key, 1, {"]"})
           section == Sub(key, 2, i - 1)
           item == From(key, i + 1)
       IN  IF section \in DOMAIN cfg /\ item \in DOMAIN cfg[section]
           THEN LET x == cfg[section][item]
                IN  IF HasChar(x, "{")
                    THEN ECall(x, Some(item), section, crossonly)
                    ELSE EValue(x)
           ELSE ERaise("ConfigError: substitution key not found")
  ELSE ERaise("ConfigError: substitution key not found")

\* _substitute_from_other_section answering a pair that is on the stack with
\* the empty string
SubstituteSilent(key, crossonly, stack) ==
  IF StartsWith(key, <<"[">>) /\ HasChar(key, "]")
  THEN LET i == FindFrom(key, 1, {"]"})
           section == Sub(key, 2, i - 1)
           item == From(key, i + 1)
       IN  IF section \in DOMAIN cfg /\ item \in DOMAIN cfg[section]
           THEN IF <<section, Some(item)>> \in Range(stack)
                THEN EValue(<<>>)
                ELSE LET x == cfg[section][item]
                     IN  IF HasChar(x, "{")
                         THEN ECall(x, Some(item), section, crossonly)
                         ELSE EValue(x)
           ELSE ERaise("ConfigError: substitution key not found")
  ELSE ERaise("ConfigError: substitution key not found")

\* Replacer._substitute_from_other_section(key)
_substitute_from_other_section(key, crossonly, stack) ==
  IF StartsWith(key, <<"[">>) /\ HasChar(key, "]")
  THEN LET i == FindFrom(key, 1, {"]"})
           section == Sub(key, 2, i - 1)
           item == From(key, i + 1)
       IN  IF section \in DOMAIN cfg /\ item \in DOMAIN cfg[section]
           THEN IF <<section, Some(item)>> \in Range(stack)
                THEN ERaise("ValueError: already in stack")
                ELSE LET x == cfg[section][item]
                     IN  IF HasChar(x, "{")
                         THEN ECall(x, Some(item), section, crossonly)
                         ELSE EValue(x)
           ELSE ERaise("ConfigError: substitution key not found")
  ELSE ERaise("ConfigError: substitution key not found")

\* the names the source writes as string literals
K_toxinidir == <<"t","o","x","i","n","i","d","i","r">>

K_homedir == <<"h","o","m","e","d","i","r">>

K_toxworkdir == <<"t","o","x","w","o","r","k","d","i","r">>

K_distdir == <<"d","i","s","t","d","i","r">>

K_distshare == <<"d","i","s","t","s","h","a","r","e">>

K_sdistsrc == <<"s","d","i","s","t","s","r","c">>

K_setupdir == <<"s","e","t","u","p","d","i","r">>

K_envlist == <<"e","n","v","l","i","s","t">>

K_skipsdist == <<"s","k","i","p","s","d","i","s","t">>

K_envname == <<"e","n","v","n","a","m","e">>

K_envbindir == <<"e","n","v","b","i","n","d","i","r">>

K_envsitepackagesdir ==
  <<"e","n","v","s","i","t","e","p","a","c","k","a","g","e","s","d","i","r">>

K_envpython == <<"e","n","v","p","y","t","h","o","n">>

K_envdir == <<"e","n","v","d","i","r">>

K_setenv == <<"s","e","t","e","n","v">>

K_basepython == <<"b","a","s","e","p","y","t","h","o","n">>

K_envtmpdir == <<"e","n","v","t","m","p","d","i","r">>

K_changedir == <<"c","h","a","n","g","e","d","i","r">>

K_usedevelop == <<"u","s","e","d","e","v","e","l","o","p">>

K_commands == <<"c","o","m","m","a","n","d","s">>

K_PYTHONHASHSEED == <<"P","Y","T","H","O","N","H","A","S","H","S","E","E","D">>

K_TOXENV == <<"T","O","X","E","N","V">>

K_tox == <<"t","o","x">>

K_testenv == <<"t","e","s","t","e","n","v">>

K_python == <<"p","y","t","h","o","n">>

K_jython == <<"j","y","t","h","o","n">>

K_ALL == <<"A","L","L">>

K_bin == <<"b","i","n">>

\* `sub in s`
Contains(s, sub) ==
  \E i \in 1..(Len(s) - Len(sub) + 1) : Sub(s, i, i + Len(sub) - 1) = sub

\* a bound method of the TestenvConfig, as a namespace value
Callable(name) == <<name, <<"(", ")">>>>

\* TestenvConfig.get_envbindir(), off win32
get_envbindir ==
  IF K_envdir \notin DOMAIN vc.attrs
  THEN ERaise("AttributeError: TestenvConfig has no attribute 'envdir'")
  ELSE IF vc.attrs[K_envdir] = None
  THEN ERaise("AttributeError: 'NoneType' object has no attribute 'join'")
  ELSE EValue(PathJoin(vc.attrs[K_envdir][1], K_bin))

\* TestenvConfig.get_envpython()
get_envpython ==
  LET Named(name, bindir) ==
        IF bindir.t = "raise" THEN bindir
        ELSE EValue(PathJoin(bindir.v, name))
  IN  IF K_basepython \notin DOMAIN vc.attrs
      THEN ERaise("AttributeError: TestenvConfig has no attribute 'basepython'")
      ELSE Named(IF Contains(vc.attrs[K_basepython], K_jython)
                 THEN K_jython ELSE K_python,
                 get_envbindir)

\* TestenvConfig.get_envsitepackagesdir(): config.interpreters answers
\* with a directory under envdir, or has no interpreter for basepython
get_envsitepackagesdir ==
  IF interpreters = "notfound" THEN ERaise("InterpreterNotFound")
  ELSE IF K_envdir \notin DOMAIN vc.attrs
  THEN ERaise("AttributeError: TestenvConfig has no attribute 'envdir'")
  ELSE EValue(PathJoin(vc.attrs[K_envdir][1], <<"s", "p">>))

\* val() for a callable namespace value
CallValue(name) ==
  CASE name = K_envbindir -> get_envbindir
    [] name = K_envpython -> get_envpython
    [] name = K_envsitepackagesdir -> get_envsitepackagesdir

\* _replace_substitution resolving the placeholders of a namespace value
ReplaceSubstitutionDeep(mt, stack) ==
  IF mt.value \in DOMAIN subs /\ subs[mt.value] # None
  THEN IF Len(subs[mt.value]) = 2 THEN CallValue(subs[mt.value][1])
       ELSE IF HasChar(subs[mt.value][1], "{")
       THEN ECall(subs[mt.value][1], None, <<>>, FALSE)
       ELSE EValue(subs[mt.value][1])
  ELSE _substitute_from_other_section(mt.value, FALSE, stack)

\* _replace_substitution looking a plain key up in the SetenvDict as well
ReplaceSubstitutionSetenv(mt, stack) ==
  IF mt.value \in DOMAIN subs /\ subs[mt.value] # None
  THEN IF Len(subs[mt.value]) = 2 THEN CallValue(subs[mt.value][1])
       ELSE EValue(subs[mt.value][1])
  ELSE IF setenv.active /\ mt.value \in DOMAIN setenv.definitions
  THEN EValue(setenv.definitions[mt.value])
  ELSE _substitute_from_other_section(mt.value, FALSE, stack)

\* Replacer._replace_substitution(match)
_replace_substitution(mt, stack) ==
  IF mt.value \in DOMAIN subs /\ subs[mt.value] # None
  THEN IF Len(subs[mt.value]) = 2 THEN CallValue(subs[mt.value][1])
       ELSE EValue(subs[mt.value][1])
  ELSE _substitute_from_other_section(mt.value, FALSE, stack)

\* Replacer._replace_env(match) with SectionReader.get_environ_value: the
\* process environment answers at once, an active SetenvDict is called
_replace_env(mt) ==
  IF mt.value = <<>>
  THEN ERaise("ConfigError: env: requires an environment variable name")
  ELSE IF setenv.active THEN EEnv(mt.value, mt.default)
  ELSE IF mt.value \in DOMAIN environ THEN EValue(environ[mt.value])
  ELSE IF mt.default = None
  THEN ERaise("ConfigError: unknown environment variable")
  ELSE EValue(mt.default[1])

\* Replacer._replace_match(match); text is the matched text
_replace_match(mt, text, crossonly, stack) ==
  IF crossonly
  THEN IF StartsWith(mt.value, <<"[">>)
       THEN _substitute_from_other_section(mt.value, crossonly, stack)
       ELSE EValue(text)
  ELSE IF mt.sub_type = None /\ mt.value = <<>> /\ mt.default \in {None, Some(<<>>)}
  THEN EValue(<<":">>)
  ELSE IF mt.value \in {<<"o", "p", "t", "s">>,
                        <<"p", "a", "c", "k", "a", "g", "e", "s">>}
  THEN EValue(<<"{">> \o mt.value \o <<"}">>)
  ELSE IF mt.sub_type = Some(<<"e", "n", "v">>) THEN _replace_env(mt)
  ELSE IF mt.sub_type # None
  THEN ERaise("ConfigError: no support for the substitution type")
  ELSE _replace_substitution(mt, stack)

\* the default of the placeholder taken before the value of the lookup
EnvResultDefaultFirst(envvalue, dflt) ==
  IF dflt # None THEN EValue(dflt[1])
  ELSE IF envvalue # None THEN EValue(envvalue[1])
  ELSE ERaise("ConfigError: unknown environment variable")

\* the statement after an environment lookup returned, in _replace_env
EnvResult(envvalue, dflt) ==
  IF envvalue # None THEN EValue(envvalue[1])
  ELSE IF dflt = None THEN ERaise("ConfigError: unknown environment variable")
  ELSE EValue(dflt[1])

\* the finally clause of _replace: pop the entry and assert it is ours
PopSubst(m, f) ==
  LET m1 == [m EXCEPT !.subststack = Front(@)]
  IN  IF Last(m.subststack) = f.entry THEN m1 ELSE Raise(m1, "AssertionError")

\* one turn of RE_ITEM_REF.sub(self._replace_match, x) in do_replace: the
\* next match is handled, or the scan ends and _replace returns
ReplaceStep(m) ==
  LET Finished(f) ==
        LET Popped(m1) ==
              IF m1.mode = "raise" THEN m1
              ELSE Return(m1, f.out \o From(f.value, f.pos))
        IN  Popped(PopSubst(PopFrame(m), f))
      Effect(f1, e) ==
        CASE e.t = "value" -> SetTop(m, [f1 EXCEPT !.out = @ \o e.v])
          [] e.t = "raise" -> Raise(m, e.e)
          [] e.t = "call" ->
               CallReplace(SetTop(m, [f1 EXCEPT !.wait = "section"]),
                           e.v, e.name, e.sec, e.crossonly)
          [] e.t = "env" ->
               PushFrame(SetTop(m, [f1 EXCEPT !.wait = "env", !.dflt = e.dflt]),
                         [Frame0 EXCEPT !.kind = "setenvget",
                                        !.phase = "start",
                                        !.name = e.name])
      Matched(f, i, mt) ==
        Effect([f EXCEPT !.pos = mt.end + 1,
                         !.out = @ \o Sub(f.value, f.pos, i - 1)],
               _replace_match(mt, Sub(f.value, i, mt.end), f.crossonly,
                              m.subststack))
      Scan(f, i) == IF i = 0 THEN Finished(f) ELSE Matched(f, i, MatchAt(f.value, i))
      Turn(f) == Scan(f, NextMatch(f.value, f.pos))
  IN  Turn(Top(m))

\* a nested call returned into do_replace: the value replaces the match
ReplaceResume(m) ==
  LET f == Top(m)
      e == IF f.wait = "env" THEN EnvResult(m.retval, f.dflt) ELSE EValue(m.retval)
  IN  IF e.t = "raise" THEN Raise(m, e.e)
      ELSE [SetTop(m, [f EXCEPT !.out = @ \o e.v, !.wait = "", !.dflt = None])
              EXCEPT !.mode = "run"]

\* ------------------------------------------------------------------------
\* SetenvDict
\* ------------------------------------------------------------------------

NoSetenv ==
  [active |-> FALSE, definitions |-> <<>>, resolved |-> <<>>, lookupstack |-> <<>>]

\* d[k] = v on a dictionary
Put(d, k, v) == [x \in DOMAIN d \cup {k} |-> IF x = k THEN v ELSE d[x]]

\* SetenvDict.get without the look at _lookupstack
SetenvGetUnguarded(m) ==
  LET f == Top(m)
      se == m.setenv
  IN  IF f.name \in DOMAIN se.resolved
      THEN Return(PopFrame(m), Some(se.resolved[f.name]))
      ELSE IF f.name \notin DOMAIN se.definitions
      THEN Return(PopFrame(m),
                  IF f.name \in DOMAIN environ THEN Some(environ[f.name])
                  ELSE f.default)
      ELSE
        LET val == se.definitions[f.name]
        IN  IF ~HasChar(val, "{")
            THEN Return([PopFrame(m) EXCEPT !.setenv.resolved = Put(@, f.name, val)],
                        Some(val))
            ELSE CallReplace(
                   [SetTop(m, [f EXCEPT !.phase = "await"])
                      EXCEPT !.setenv.lookupstack = Append(@, f.name)],
                   val, None, <<>>, FALSE)

\* SetenvDict.get caching the definition before it is resolved
SetenvGetCachesEarly(m) ==
  LET f == Top(m)
      se == m.setenv
  IN  IF f.name \in DOMAIN se.resolved
      THEN Return(PopFrame(m), Some(se.resolved[f.name]))
      ELSE IF f.name \in Range(se.lookupstack) \/ f.name \notin DOMAIN se.definitions
      THEN Return(PopFrame(m),
                  IF f.name \in DOMAIN environ THEN Some(environ[f.name])
                  ELSE f.default)
      ELSE
        LET val == se.definitions[f.name]
        IN  IF ~HasChar(val, "{")
            THEN Return([PopFrame(m) EXCEPT !.setenv.resolved = Put(@, f.name, val)],
                        Some(val))
            ELSE CallReplace(
                   [SetTop(m, [f EXCEPT !.phase = "await"])
                      EXCEPT !.setenv.lookupstack = Append(@, f.name),
                             !.setenv.resolved = Put(@, f.name, val)],
                   val, None, <<>>, FALSE)

\* SetenvDict.get(name, default) up to the call of reader._replace(val)
SetenvGet(m) ==
  LET f == Top(m)
      se == m.setenv
  IN  IF f.name \in DOMAIN se.resolved
      THEN Return(PopFrame(m), Some(se.resolved[f.name]))
      ELSE IF f.name \in Range(se.lookupstack) \/ f.name \notin DOMAIN se.definitions
      THEN Return(PopFrame(m),
                  IF f.name \in DOMAIN environ THEN Some(environ[f.name])
                  ELSE f.default)
      ELSE
        LET val == se.definitions[f.name]
        IN  IF ~HasChar(val, "{")
            THEN Return([PopFrame(m) EXCEPT !.setenv.resolved = Put(@, f.name, val)],
                        Some(val))
            ELSE CallReplace(
                   [SetTop(m, [f EXCEPT !.phase = "await"])
                      EXCEPT !.setenv.lookupstack = Append(@, f.name)],
                   val, None, <<>>, FALSE)

\* reader._replace(val) returned in SetenvDict.get: cache, pop, return
SetenvResume(m) ==
  LET f == Top(m)
  IN  Return([PopFrame(m) EXCEPT !.setenv.resolved = Put(@, f.name, m.retval),
                                 !.setenv.lookupstack = Front(@)],
             Some(m.retval))

\* the sentinel _dummy of __getitem__
_dummy == Some(<<"_dummy">>)

\* SetenvDict.__getitem__(name): x = self.get(name, _dummy)
SetenvGetitem(m) ==
  PushFrame(SetTop(m, [Top(m) EXCEPT !.phase = "await"]),
            [Frame0 EXCEPT !.kind = "setenvget", !.phase = "start",
                           !.name = Top(m).name, !.default = _dummy])

\* get returned in __getitem__: KeyError for the sentinel
SetenvGetitemResume(m) ==
  IF m.retval = _dummy THEN Raise(PopFrame(m), "KeyError")
  ELSE Return(PopFrame(m), m.retval)

\* SetenvDict.__setitem__(name, value)
SetenvSetitem(se, name, value) ==
  [se EXCEPT !.definitions = Put(@, name, value), !.resolved = Put(@, name, value)]

\* ------------------------------------------------------------------------
\* SectionReader.getstring and the getters built on it
\* ------------------------------------------------------------------------

\* the end of the group \{[^}]+\} that starts at index i of s, or 0
BraceGroupEnd(s, i) ==
  IF i > Len(s) \/ s[i] # "{" THEN 0
  ELSE LET j == FindFrom(s, i + 1, {"}"})
       IN  IF j > i + 1 THEN j ELSE 0

\* the end of the run (?:\{[^}]+\})+ that starts at index i of s, or 0
RECURSIVE BraceRunEnd(_, _)
BraceRunEnd(s, i) ==
  LET Run(j) ==
        LET More(k) == IF k = 0 THEN j ELSE k
        IN  IF j = 0 THEN 0 ELSE More(BraceRunEnd(s, j + 1))
  IN  Run(BraceGroupEnd(s, i))

\* re.split(r'((?:\{[^}]+\})+)|,', s) from index i on, t being the text
\* before it: texts and captured runs alternate; the capture of a comma
\* is None, written as the empty string (both are falsy)
RECURSIVE SplitCommas(_, _, _)
SplitCommas(s, i, t) ==
  LET At(e) ==
        IF e > 0 THEN <<t, Sub(s, i, e)>> \o SplitCommas(s, e + 1, <<>>)
        ELSE IF s[i] = "," THEN <<t, <<>>>> \o SplitCommas(s, i + 1, <<>>)
        ELSE SplitCommas(s, i + 1, Append(t, s[i]))
  IN  IF i > Len(s) THEN <<t>> ELSE At(BraceRunEnd(s, i))

\* [''.join(g) for k, g in itertools.groupby(tokens, key=bool) if k]: the
\* runs of non-empty tokens, each joined; cur is the run being read
RECURSIVE GroupTruthy(_, _)
GroupTruthy(tokens, cur) ==
  IF tokens = <<>> THEN (IF cur # <<>> THEN <<cur>> ELSE <<>>)
  ELSE IF Head(tokens) # <<>> THEN GroupTruthy(Tail(tokens), cur \o Head(tokens))
  ELSE (IF cur # <<>> THEN <<cur>> ELSE <<>>) \o GroupTruthy(Tail(tokens), <<>>)

\* re.split(r'\{([^}]+)\}', env) from index i on: texts and the insides of
\* the groups alternate
RECURSIVE SplitGroups(_, _, _)
SplitGroups(s, i, t) ==
  LET At(e) ==
        IF e > 0 THEN <<t, Sub(s, i + 1, e - 1)>> \o SplitGroups(s, e + 1, <<>>)
        ELSE SplitGroups(s, i + 1, Append(t, s[i]))
  IN  IF i > Len(s) THEN <<t>> ELSE At(BraceGroupEnd(s, i))

\* the product with the leftmost group varying fastest
RECURSIVE ProductLeftFastest(_)
ProductLeftFastest(parts) ==
  IF parts = <<>> THEN <<<<>>>>
  ELSE LET Rows(first, rest) ==
             Concat([b \in 1..Len(rest) |->
                       [a \in 1..Len(first) |-> first[a] \o rest[b]]])
       IN  Rows(Head(parts), ProductLeftFastest(Tail(parts)))

\* [''.join(variant) for variant in itertools.product(*parts)]
RECURSIVE Product(_)
Product(parts) ==
  IF parts = <<>> THEN <<<<>>>>
  ELSE LET Rows(first, rest) ==
             Concat([a \in 1..Len(first) |->
                       [b \in 1..Len(rest) |-> first[a] \o rest[b]]])
       IN  Rows(Head(parts), Product(Tail(parts)))

\* expand(env) of _expand_envstr
expand(env) ==
  LET Parts(tokens) == [i \in 1..Len(tokens) |-> Split(tokens[i], ",")]
  IN  Product(Parts(SplitGroups(env, 1, <<>>)))

\* _expand_envstr without the strip of the segments
ExpandEnvstrUnstripped(envstr) ==
  LET Expanded(envlist) == Concat([i \in 1..Len(envlist) |-> expand(envlist[i])])
  IN  Expanded(GroupTruthy(SplitCommas(envstr, 1, <<>>), <<>>))

\* _expand_envstr(envstr)
_expand_envstr(envstr) ==
  LET Expanded(envlist) == Concat([i \in 1..Len(envlist) |-> expand(envlist[i])])
      Stripped(items) == [i \in 1..Len(items) |-> Strip(items[i])]
  IN  Expanded(Stripped(GroupTruthy(SplitCommas(envstr, 1, <<>>), <<>>)))

\* _split_factor_expr(expr): a list of factor sets
_split_factor_expr(expr) ==
  LET Sets(partial_envs) ==
        [i \in 1..Len(partial_envs) |-> Range(Split(partial_envs[i], "-"))]
  IN  Sets(_expand_envstr(expr))

\* \w, for the characters the model's strings use
WordChars ==
  {"a", "b", "c", "d", "e", "f", "g", "h", "i", "j", "k", "l", "m", "n", "o",
   "p", "q", "r", "s", "t", "u", "v", "w", "x", "y", "z",
   "A", "B", "C", "D", "E", "F", "G", "H", "I", "J", "K", "L", "M", "N", "O",
   "P", "Q", "R", "S", "T", "U", "V", "W", "X", "Y", "Z",
   "0", "1", "2", "3", "4", "5", "6", "7", "8", "9", "_"}

\* the length of the longest prefix of s made of characters of C
RECURSIVE PrefixLen(_, _)
PrefixLen(s, C) ==
  IF s # <<>> /\ s[1] \in C THEN 1 + PrefixLen(Tail(s), C) ELSE 0

\* re.search(r'^([\w{}\.,-]+)\:\s+(.+)', line): the two groups, if the line
\* has a factor prefix.  The greedy \s+ leaves the last blank to (.+) when
\* only blanks follow the colon.
FactorMatch(line) ==
  LET Groups(n) ==
        LET rest == From(line, n + 2)
            w == PrefixLen(rest, Whitespace)
        IN  IF n = 0 \/ n + 1 > Len(line) \/ line[n + 1] # ":" \/ w = 0
            THEN [ok |-> FALSE, expr |-> <<>>, line |-> <<>>]
            ELSE IF w < Len(rest)
            THEN [ok |-> TRUE, expr |-> Sub(line, 1, n), line |-> From(rest, w + 1)]
            ELSE IF w >= 2
            THEN [ok |-> TRUE, expr |-> Sub(line, 1, n), line |-> From(rest, w)]
            ELSE [ok |-> FALSE, expr |-> <<>>, line |-> <<>>]
  IN  Groups(PrefixLen(line, WordChars \cup {"{", "}", ".", ",", "-"}))

\* factor_line that asks all of the factor sets of the prefix to be within
\* the reader's factors
FactorLineAll(line) ==
  LET Within(m, sets) ==
        IF sets = <<>> THEN [err |-> FALSE, line |-> <<>>]
        ELSE IF factors = None THEN [err |-> TRUE, line |-> <<>>]
        ELSE IF \A fs \in Range(sets) : fs \subseteq factors[1]
        THEN [err |-> FALSE, line |-> m.line]
        ELSE [err |-> FALSE, line |-> <<>>]
      Pick(m) ==
        IF ~m.ok THEN [err |-> FALSE, line |-> line]
        ELSE Within(m, _split_factor_expr(m.expr))
  IN  Pick(FactorMatch(line))

\* factor_line(line) of _apply_factors: the line itself without a factor
\* prefix; with one, the rest of the line when one of the factor sets of
\* the prefix is within the reader's factors, else None (written as the
\* empty string: filter(None, ...) drops both).  A reader made without
\* factors holds the tuple (), and `fs <= ()` is a TypeError.
factor_line(line) ==
  LET Within(m, sets) ==
        IF sets = <<>> THEN [err |-> FALSE, line |-> <<>>]
        ELSE IF factors = None THEN [err |-> TRUE, line |-> <<>>]
        ELSE IF \E fs \in Range(sets) : fs \subseteq factors[1]
        THEN [err |-> FALSE, line |-> m.line]
        ELSE [err |-> FALSE, line |-> <<>>]
      Pick(m) ==
        IF ~m.ok THEN [err |-> FALSE, line |-> line]
        ELSE Within(m, _split_factor_expr(m.expr))
  IN  Pick(FactorMatch(line))

\* _apply_factors that keeps the empty lines
ApplyFactorsKeepsEmpty(s) ==
  LET Kept(fl) ==
        IF \E i \in 1..Len(fl) : fl[i].err THEN [ok |-> FALSE, v |-> <<>>]
        ELSE [ok |-> TRUE, v |-> Join(<<"\n">>, [i \in 1..Len(fl) |-> fl[i].line])]
      Lines(lines) == Kept([i \in 1..Len(lines) |-> factor_line(lines[i])])
  IN  Lines(SplitLines(Strip(s)))

\* SectionReader._apply_factors(s): the string, or ok = FALSE for the
\* TypeError
_apply_factors(s) ==
  LET Kept(fl) ==
        IF \E i \in 1..Len(fl) : fl[i].err THEN [ok |-> FALSE, v |-> <<>>]
        ELSE [ok |-> TRUE,
              v |-> Join(<<"\n">>,
                         SelectSeq([i \in 1..Len(fl) |-> fl[i].line],
                                   LAMBDA l : l # <<>>))]
      Lines(lines) == Kept([i \in 1..Len(lines) |-> factor_line(lines[i])])
  IN  Lines(SplitLines(Strip(s)))

\* the lookup in which the last section of the chain that holds the key
\* wins
RawLookupLast(name) ==
  LET ss == <<section_name>> \o fallbacksections
      I == {i \in 1..Len(ss) : ss[i] \in DOMAIN cfg /\ name \in DOMAIN cfg[ss[i]]}
  IN  IF I = {} THEN None ELSE Some(cfg[ss[Max(I)]][name])

\* the lookup of getstring: the first of the reader's section and its
\* fallback sections that holds the key gives the raw value, None if none
RawLookup(name) ==
  LET ss == <<section_name>> \o fallbacksections
      I == {i \in 1..Len(ss) : ss[i] \in DOMAIN cfg /\ name \in DOMAIN cfg[ss[i]]}
  IN  IF I = {} THEN None ELSE Some(cfg[ss[Min(I)]][name])

\* SectionReader._getdict(value, default, sep = "\n")
RECURSIVE DictOfLines(_)
DictOfLines(lines) ==
  IF lines = <<>> THEN [ok |-> TRUE, d |-> <<>>]
  ELSE
    LET line == Last(lines)
        rest == DictOfLines(Front(lines))
        i == FindFrom(line, 1, {"="})
    IN  IF ~rest.ok THEN rest
        ELSE IF Strip(line) = <<>> THEN rest
        ELSE IF i = 0 THEN [ok |-> FALSE, d |-> <<>>]
        ELSE [ok |-> TRUE,
              d |-> Put(rest.d, Strip(Sub(line, 1, i - 1)), Strip(From(line, i + 1)))]

_getdict(value) ==
  IF value = None THEN [ok |-> TRUE, d |-> <<>>]
  ELSE DictOfLines(Split(value[1], "\n"))

ArgvlistFrame(value) ==
  [Frame0 EXCEPT !.kind = "argvlist", !.lines = SplitLines(value)]

UpperCase ==
  <<"A", "B", "C", "D", "E", "F", "G", "H", "I", "J", "K", "L", "M", "N", "O",
    "P", "Q", "R", "S", "T", "U", "V", "W", "X", "Y", "Z">>

LowerCase ==
  <<"a", "b", "c", "d", "e", "f", "g", "h", "i", "j", "k", "l", "m", "n", "o",
    "p", "q", "r", "s", "t", "u", "v", "w", "x", "y", "z">>

\* str.lower()
lower(s) ==
  [i \in 1..Len(s) |->
     IF s[i] \in Range(UpperCase)
     THEN LowerCase[CHOOSE n \in 1..26 : UpperCase[n] = s[i]]
     ELSE s[i]]

\* the rest of getbool(name, default) after getstring returned; x is None
\* when getstring returned the default
BoolOf(m, f, x) ==
  IF x = None \/ x[1] = <<>>
  THEN IF f.bdefault = None THEN Raise(m, "KeyError: no config value found")
       ELSE Return(PopFrame(m), f.bdefault[1])
  ELSE IF lower(x[1]) = <<"t", "r", "u", "e">> THEN Return(PopFrame(m), TRUE)
  ELSE IF lower(x[1]) = <<"f", "a", "l", "s", "e">> THEN Return(PopFrame(m), FALSE)
  ELSE Raise(m, "ConfigError: boolean value needs to be 'True' or 'False'")

\* what a getter does with the string x (None or a string) that
\* getstring returned
GetterFinish(m, x) ==
  LET f == Top(m)
  IN  CASE f.getter = "getstring" -> Return(PopFrame(m), x)
        [] f.getter = "getpath" ->
             Return(PopFrame(m),
                    IF x = None THEN None
                    ELSE Some(PathJoin(m.subs[K_toxinidir][1], x[1])))
        [] f.getter = "getbool" -> BoolOf(m, f, x)
        [] f.getter = "getdict_setenv" ->
             LET r == _getdict(x)
             IN  IF ~r.ok THEN Raise(m, "ValueError: not enough values to unpack")
                 ELSE Return([PopFrame(m) EXCEPT
                                !.setenv = [active |-> TRUE, definitions |-> r.d,
                                            resolved |-> <<>>, lookupstack |-> <<>>]],
                             r.d)
        [] f.getter = "getargvlist" ->
             PushFrame(SetTop(m, [f EXCEPT !.phase = "argv"]), ArgvlistFrame(x[1]))

\* getstring(name, default, replace, crossonly) as the getter calls it
GetterStart(m) ==
  LET Got(f, x) ==
        IF f.replace /\ x # None /\ x[1] # <<>> /\ HasChar(x[1], "{")
        THEN CallReplace(SetTop(m, [f EXCEPT !.phase = "await"]),
                         x[1], Some(f.name), <<>>, f.crossonly)
        ELSE GetterFinish(m, x)
      Filtered(f, af) ==
        IF af.ok THEN Got(f, Some(af.v))
        ELSE Raise(m, "TypeError: '<=' not supported between 'set' and 'tuple'")
      Looked(f, raw) ==
        IF raw = None THEN Got(f, f.default) ELSE Filtered(f, _apply_factors(raw[1]))
  IN  IF Top(m).getter = "getpath" /\ K_toxinidir \notin DOMAIN m.subs
      THEN Raise(m, "KeyError: 'toxinidir'")
      ELSE Looked(Top(m), RawLookup(Top(m).name))

\* a call made by the getter returned
GetterResume(m) ==
  IF Top(m).phase = "argv" THEN Return(PopFrame(m), m.retval)
  ELSE GetterFinish(m, Some(m.retval))

\* ------------------------------------------------------------------------
\* _ArgvlistReader
\* ------------------------------------------------------------------------

\* the positional arguments joined without quoting
PosargsUnquoted == Join(<<" ">>, SelectSeq(posargs, LAMBDA x : x # <<>>))

\* list2cmdline([x for x in posargs if x])
posargs_string == list2cmdline(SelectSeq(posargs, LAMBDA x : x # <<>>))

LBrace == <<"{">>

Posargs == <<"{", "p", "o", "s", "a", "r", "g", "s", "}">>

PosargsColon == <<"{", "p", "o", "s", "a", "r", "g", "s", ":">>

Unescape(w) == Replace2(Replace2(w, <<"\\", "{">>, <<"{">>), <<"\\", "}">>, <<"}">>)

\* processcommand: the word is substituted; it joins the new command
ProcAppend(m, new_word) ==
  [SetTop(m, [Top(m) EXCEPT !.newcommand = @ \o Unescape(new_word),
                            !.phase = "word"])
     EXCEPT !.mode = "run"]

\* processcommand: the second reader._replace(new_word)
ProcSecond(m, new_word) ==
  IF HasChar(new_word, "{")
  THEN CallReplace(SetTop(m, [Top(m) EXCEPT !.phase = "second"]),
                   new_word, None, <<>>, FALSE)
  ELSE ProcAppend(m, new_word)

\* processcommand: one turn of the loop over the words, or the shlex
\* split of the new command when the words are used up
ProcStep(m) ==
  LET f == Top(m)
  IN  IF f.wordsq = <<>>
      THEN LET sh == ShlexSplit(f.newcommand)
           IN  IF sh.ok THEN Return(PopFrame(m), sh.toks)
               ELSE Raise(m, "ValueError: No closing quotation")
      ELSE
        LET word == Head(f.wordsq)
            m1 == SetTop(m, [f EXCEPT !.wordsq = Tail(@)])
            isdefault == StartsWith(word, PosargsColon) /\ EndsWith(word, <<"}">>)
        IN  IF word = Posargs \/ word = <<"[", "]">>
            THEN SetTop(m1, [Top(m1) EXCEPT !.newcommand = @ \o posargs_string])
            ELSE IF isdefault /\ posargs # <<>>
            THEN SetTop(m1, [Top(m1) EXCEPT !.newcommand = @ \o posargs_string])
            ELSE
              LET w == IF isdefault THEN Sub(word, 10, Len(word) - 1) ELSE word
              IN  IF HasChar(w, "{")
                  THEN CallReplace(SetTop(m1, [Top(m1) EXCEPT !.phase = "first"]),
                                   w, None, <<>>, FALSE)
                  ELSE ProcSecond(m1, w)

\* a reader._replace call of processcommand returned
ProcResume(m) ==
  IF Top(m).phase = "first" THEN ProcSecond(m, m.retval)
  ELSE ProcAppend(m, m.retval)

ProcFrame(command) ==
  [Frame0 EXCEPT !.kind = "processcommand", !.phase = "word",
                 !.wordsq = words(command)]

\* the loop of getargvlist without its else clause: an unterminated
\* command is left out
ArgvlistStepLenient(m) ==
  LET f == Top(m)
  IN  IF f.lines = <<>>
      THEN Return(PopFrame(m), f.cmds)
      ELSE
        LET line == RStrip(Head(f.lines))
            f1 == [f EXCEPT !.lines = Tail(@)]
            cur2 == f.cur \o line
        IN  IF line = <<>> THEN SetTop(m, f1)
            ELSE IF EndsWith(line, <<"\\">>)
            THEN SetTop(m, [f1 EXCEPT !.cur = @ \o <<" ">> \o Front(line)])
            ELSE IF is_section_substitution(cur2)
            THEN CallReplace(SetTop(m, [f1 EXCEPT !.cur = cur2, !.phase = "replaced"]),
                             cur2, None, <<>>, TRUE)
            ELSE PushFrame(SetTop(m, [f1 EXCEPT !.cur = cur2, !.phase = "cmd"]),
                           ProcFrame(cur2))

\* getargvlist: one turn of the loop over the lines, or its else clause
ArgvlistStep(m) ==
  LET f == Top(m)
  IN  IF f.lines = <<>>
      THEN IF f.cur # <<>>
           THEN Raise(m, "ConfigError: line-continuation ends nowhere")
           ELSE Return(PopFrame(m), f.cmds)
      ELSE
        LET line == RStrip(Head(f.lines))
            f1 == [f EXCEPT !.lines = Tail(@)]
            cur2 == f.cur \o line
        IN  IF line = <<>> THEN SetTop(m, f1)
            ELSE IF EndsWith(line, <<"\\">>)
            THEN SetTop(m, [f1 EXCEPT !.cur = @ \o <<" ">> \o Front(line)])
            ELSE IF is_section_substitution(cur2)
            THEN CallReplace(SetTop(m, [f1 EXCEPT !.cur = cur2, !.phase = "replaced"]),
                             cur2, None, <<>>, TRUE)
            ELSE PushFrame(SetTop(m, [f1 EXCEPT !.cur = cur2, !.phase = "cmd"]),
                           ProcFrame(cur2))

\* a call made by getargvlist returned
ArgvlistResume(m) ==
  LET f == Top(m)
  IN  CASE f.phase = "replaced" ->
             PushFrame(SetTop(m, [f EXCEPT !.phase = "sub"]), ArgvlistFrame(m.retval))
        [] f.phase = "sub" ->
             [SetTop(m, [f EXCEPT !.cmds = @ \o m.retval, !.cur = <<>>, !.phase = ""])
                EXCEPT !.mode = "run"]
        [] f.phase = "cmd" ->
             [SetTop(m, [f EXCEPT !.cmds = Append(@, m.retval), !.cur = <<>>,
                                  !.phase = ""])
                EXCEPT !.mode = "run"]

\* ------------------------------------------------------------------------
\* parseini.make_envconfig
\* ------------------------------------------------------------------------

sys_executable == <<"p", "y", "t", "h", "o", "n">>

\* default_factors
default_factors ==
  <<"j","y","t","h","o","n">> :> <<"j","y","t","h","o","n">> @@
  <<"p","y","p","y">> :> <<"p","y","p","y">> @@
  <<"p","y","p","y","3">> :> <<"p","y","p","y","3">> @@
  <<"p","y">> :> sys_executable @@
  <<"p","y","2">> :> <<"p","y","t","h","o","n","2">> @@
  <<"p","y","3">> :> <<"p","y","t","h","o","n","3">> @@
  <<"p","y","2","6">> :> <<"p","y","t","h","o","n","2",".","6">> @@
  <<"p","y","2","7">> :> <<"p","y","t","h","o","n","2",".","7">> @@
  <<"p","y","3","2">> :> <<"p","y","t","h","o","n","3",".","2">> @@
  <<"p","y","3","3">> :> <<"p","y","t","h","o","n","3",".","3">> @@
  <<"p","y","3","4">> :> <<"p","y","t","h","o","n","3",".","4">> @@
  <<"p","y","3","5">> :> <<"p","y","t","h","o","n","3",".","5">> @@
  <<"p","y","3","6">> :> <<"p","y","t","h","o","n","3",".","6">> @@
  <<"p","y","3","7">> :> <<"p","y","t","h","o","n","3",".","7">>

testenvprefix == K_testenv \o <<":">>

VenvAttribute(name, type, default, postprocess) ==
  [name |-> name, type |-> type, default |-> default, postprocess |-> postprocess]

\* parser._testenv_attr: the attributes tox_addoption declares for envdir,
\* setenv, basepython, envtmpdir, changedir, usedevelop and commands, in
\* the order of their declaration
testenv_attr ==
  <<VenvAttribute(K_envdir, "path",
                  Some(<<"{">> \o K_toxworkdir \o <<"}", "/", "{">> \o K_envname \o <<"}">>),
                  ""),
    VenvAttribute(K_setenv, "dict_setenv", None, "setenv"),
    VenvAttribute(K_basepython, "string", None, "basepython_default"),
    VenvAttribute(K_envtmpdir, "path",
                  Some(<<"{">> \o K_envdir \o <<"}", "/", "t", "m", "p">>), ""),
    VenvAttribute(K_changedir, "path", Some(<<"{">> \o K_toxinidir \o <<"}">>), ""),
    VenvAttribute(K_usedevelop, "bool", FALSE, "develop"),
    VenvAttribute(K_commands, "argvlist", Some(<<>>), "")>>

\* the reader as an object: what a SectionReader holds
Reader(m) ==
  [section_name |-> m.section_name, fallbacksections |-> m.fallbacksections,
   factors |-> m.factors, subs |-> m.subs, posargs |-> m.posargs,
   subststack |-> m.subststack, setenv |-> m.setenv]

\* the reader r is the one the running code reads through
WithReader(m, r) ==
  [m EXCEPT !.section_name = r.section_name,
            !.fallbacksections = r.fallbacksections,
            !.factors = r.factors, !.subs = r.subs, !.posargs = r.posargs,
            !.subststack = r.subststack, !.setenv = r.setenv]

\* SectionReader(section_name, cfg, fallbacksections, factors)
SectionReader(name, fallbacks, fs) ==
  [section_name |-> name, fallbacksections |-> fallbacks, factors |-> fs,
   subs |-> <<>>, posargs |-> <<>>, subststack |-> <<>>, setenv |-> NoSetenv]

NoReader == SectionReader(<<>>, <<>>, None)

\* dict.update
Update(d, kw) ==
  [x \in DOMAIN d \cup DOMAIN kw |-> IF x \in DOMAIN kw THEN kw[x] ELSE d[x]]

\* meth = getattr(reader, "get" + atype); meth(env_attr.name, env_attr.default)
GetterFrame(env_attr) ==
  [Frame0 EXCEPT
     !.kind = "getter",
     !.getter = CASE env_attr.type = "bool" -> "getbool"
                  [] env_attr.type = "path" -> "getpath"
                  [] env_attr.type = "string" -> "getstring"
                  [] env_attr.type = "dict_setenv" -> "getdict_setenv"
                  [] env_attr.type = "argvlist" -> "getargvlist",
     !.name = env_attr.name,
     !.default = IF env_attr.type = "bool" THEN None ELSE env_attr.default,
     !.bdefault = IF env_attr.type = "bool" THEN Some(env_attr.default) ELSE None,
     !.replace = env_attr.type # "argvlist",
     !.crossonly = env_attr.type = "dict_setenv"]

\* make_envconfig(name, section, subs, config) up to its loop: the reader
\* of the section and the TestenvConfig are made
CallMakeEnvconfig(m, name, section) ==
  LET fs == Range(Split(name, "-"))
      kw == [k \in {K_envname, K_envbindir, K_envsitepackagesdir, K_envpython} |->
               IF k = K_envname THEN Some(name) ELSE Callable(k)]
      reader == [SectionReader(section, <<K_testenv>>, Some(fs))
                   EXCEPT !.subs = Update(m.subs, kw)]
  IN  IF Len(m.frames) >= RecursionLimit THEN Raise(m, "RecursionError")
      ELSE [WithReader(m, reader) EXCEPT
              !.frames = Append(@, [Frame0 EXCEPT !.kind = "make_envconfig",
                                                  !.name = name,
                                                  !.saved = Reader(m)]),
              !.vc = [envname |-> name, factors |-> fs, attrs |-> <<>>],
              !.mode = "run"]

\* the loop of make_envconfig: the next attribute is read, or vc returned
MakeEnvconfigStep(m) ==
  LET f == Top(m)
  IN  IF f.pos > Len(testenv_attr)
      THEN Return([WithReader(PopFrame(m), f.saved) EXCEPT !.vc = None], m.vc)
      ELSE PushFrame(m, GetterFrame(testenv_attr[f.pos]))

\* the postprocess hooks setenv, basepython_default and develop; --installpkg
\* is not given
Postprocess(m, env_attr, res) ==
  CASE env_attr.postprocess = "setenv" ->
         IF K_PYTHONHASHSEED \notin DOMAIN m.setenv.definitions
            /\ m.config.hashseed # None
         THEN [m EXCEPT
                 !.setenv.definitions = Put(@, K_PYTHONHASHSEED, m.config.hashseed[1]),
                 !.setenv.resolved = Put(@, K_PYTHONHASHSEED, m.config.hashseed[1]),
                 !.retval = Put(res, K_PYTHONHASHSEED, m.config.hashseed[1])]
         ELSE m
    [] env_attr.postprocess = "basepython_default" ->
         [m EXCEPT !.retval =
            IF res # None THEN res[1]
            ELSE IF m.vc.factors \cap DOMAIN default_factors # {}
            THEN default_factors[CHOOSE x \in m.vc.factors : x \in DOMAIN default_factors]
            ELSE sys_executable]
    [] env_attr.postprocess = "develop" ->
         [m EXCEPT !.retval = res \/ option.develop]
    [] OTHER -> m

\* the loop body without addsubstitutions for a path
MakeEnvconfigResumeUnpublished(m) ==
  LET f == Top(m)
      env_attr == testenv_attr[f.pos]
      Stored(m1) ==
        [SetTop(m1, [f EXCEPT !.pos = @ + 1]) EXCEPT
           !.vc.attrs = Put(@, env_attr.name, m1.retval),
           !.mode = "run"]
  IN  Stored(Postprocess(m, env_attr, m.retval))

\* the loop body with the TestenvConfig put into config.envconfigs while
\* it is being filled
MakeEnvconfigResumeEarly(m) ==
  LET f == Top(m)
      env_attr == testenv_attr[f.pos]
      Stored(m1) ==
        [SetTop(m1, [f EXCEPT !.pos = @ + 1]) EXCEPT
           !.vc.attrs = Put(@, env_attr.name, m1.retval),
           !.config.envconfigs =
              Put(@, m1.vc.envname,
                  [m1.vc EXCEPT !.attrs = Put(@, env_attr.name, m1.retval)]),
           !.subs = IF env_attr.type = "path"
                    THEN Put(@, env_attr.name, m1.retval) ELSE @,
           !.mode = "run"]
  IN  Stored(Postprocess(m, env_attr, m.retval))

\* the rest of the loop body once the getter returned: postprocess,
\* setattr, and for a path addsubstitutions
MakeEnvconfigResume(m) ==
  LET f == Top(m)
      env_attr == testenv_attr[f.pos]
      Stored(m1) ==
        [SetTop(m1, [f EXCEPT !.pos = @ + 1]) EXCEPT
           !.vc.attrs = Put(@, env_attr.name, m1.retval),
           !.subs = IF env_attr.type = "path"
                    THEN Put(@, env_attr.name, m1.retval) ELSE @,
           !.mode = "run"]
  IN  Stored(Postprocess(m, env_attr, m.retval))

\* ------------------------------------------------------------------------
\* parseini and parseconfig
\* ------------------------------------------------------------------------

\* printable characters in the order of their code points
Ascii ==
  <<" ", "!", "\"", "#", "$", "%", "&", "'", "(", ")", "*", "+", ",", "-",
    ".", "/", "0", "1", "2", "3", "4", "5", "6", "7", "8", "9", ":", ";",
    "<", "=", ">", "?", "@", "A", "B", "C", "D", "E", "F", "G", "H", "I",
    "J", "K", "L", "M", "N", "O", "P", "Q", "R", "S", "T", "U", "V", "W",
    "X", "Y", "Z", "[", "\\", "]", "^", "_", "a", "b", "c", "d", "e",
    "f", "g", "h", "i", "j", "k", "l", "m", "n", "o", "p", "q", "r", "s",
    "t", "u", "v", "w", "x", "y", "z", "{", "|", "}", "~">>

ord(c) == CHOOSE i \in 1..Len(Ascii) : Ascii[i] = c

\* a < b on strings
RECURSIVE StrLess(_, _)
StrLess(a, b) ==
  IF b = <<>> THEN FALSE
  ELSE IF a = <<>> THEN TRUE
  ELSE IF a[1] # b[1] THEN ord(a[1]) < ord(b[1])
  ELSE StrLess(Tail(a), Tail(b))

\* sorted(S) for a set of strings
RECURSIVE sorted(_)
sorted(S) ==
  IF S = {} THEN <<>>
  ELSE LET least == CHOOSE x \in S : \A y \in S \ {x} : StrLess(x, y)
       IN  <<least>> \o sorted(S \ {least})

\* _split_env(env) for a string and for the list that -e builds
_split_env(env) ==
  _expand_envstr(IF HasChar(env, "\n") THEN Join(<<",">>, Split(env, "\n")) ELSE env)

_split_env_list(env) == Concat([i \in 1..Len(env) |-> _expand_envstr(env[i])])

\* re.findall(r'^([\w{}\.,-]+)\:\s+', value, re.M) from index p on
RECURSIVE FactorExprs(_, _)
FactorExprs(s, p) ==
  LET Found(n) ==
        LET w == PrefixLen(From(s, p + n + 1), Whitespace)
        IN  IF n >= 1 /\ p + n <= Len(s) /\ s[p + n] = ":" /\ w >= 1
            THEN <<Sub(s, p, p + n - 1)>> \o FactorExprs(s, p + n + 1 + w)
            ELSE FactorExprs(s, p + 1)
  IN  IF p > Len(s) THEN <<>>
      ELSE IF p > 1 /\ s[p - 1] # "\n" THEN FactorExprs(s, p + 1)
      ELSE Found(PrefixLen(From(s, p), WordChars \cup {"{", "}", ".", ",", "-"}))

\* the union of a sequence of sets
RECURSIVE UnionAll(_)
UnionAll(sets) == IF sets = <<>> THEN {} ELSE Head(sets) \cup UnionAll(Tail(sets))

\* parseini._list_section_factors(section)
_list_section_factors(section) ==
  IF section \notin DOMAIN cfg THEN {}
  ELSE UNION {UnionAll(Concat([i \in 1..Len(FactorExprs(cfg[section][key], 1)) |->
                                 _split_factor_expr(FactorExprs(cfg[section][key], 1)[i])])) :
                key \in DOMAIN cfg[section]}

\* reader.getstring("envlist", replace=False) on the [tox] reader: ok is
\* FALSE for the TypeError of _apply_factors, v is None or a string
IniEnvlist ==
  LET Filtered(af) == [ok |-> af.ok, v |-> IF af.ok THEN Some(af.v) ELSE None]
      Looked(raw) ==
        IF raw = None THEN [ok |-> TRUE, v |-> None]
        ELSE Filtered(_apply_factors(raw[1]))
  IN  Looked(RawLookup(K_envlist))

\* parseini._getenvdata(reader): ok, envlist and all_envs; the ini file is
\* read only when neither -e nor TOXENV names environments
_getenvdata ==
  LET Data(envlist, all_envs) ==
        [ok |-> TRUE,
         envlist |-> IF envlist = <<>> \/ K_ALL \in Range(envlist)
                     THEN sorted(all_envs) ELSE envlist,
         all_envs |-> all_envs]
      Named(all_envs) == IF all_envs = {} THEN {K_python} ELSE all_envs
      Collected(envlist) ==
        Data(envlist,
             Named((Range(envlist) \ {K_ALL})
                   \cup {From(sec, Len(testenvprefix) + 1) :
                           sec \in {x \in DOMAIN cfg : StartsWith(x, testenvprefix)}}))
      FromIni(ini) ==
        IF ~ini.ok THEN [ok |-> FALSE, envlist |-> <<>>, all_envs |-> {}]
        ELSE IF ini.v # None /\ ini.v[1] # <<>> THEN Collected(_split_env(ini.v[1]))
        ELSE Collected(<<>>)
  IN  IF option.env # <<>> THEN Collected(_split_env_list(option.env))
      ELSE IF K_TOXENV \in DOMAIN environ /\ environ[K_TOXENV] # <<>>
      THEN Collected(_split_env(environ[K_TOXENV]))
      ELSE FromIni(IniEnvlist)

\* known_factors of parseini.__init__, stated being the envlist of the ini
\* file
known_factors(stated) ==
  LET Stated(envs) == UNION {Range(Split(envs[i], "-")) : i \in 1..Len(envs)}
  IN  _list_section_factors(K_testenv) \cup DOMAIN default_factors \cup {K_python}
        \cup (IF stated # None /\ stated[1] # <<>> THEN Stated(_split_env(stated[1]))
              ELSE {})

\* the paths parseini reads from [tox], in order: key, default, and
\* whether addsubstitutions publishes the result
tox_paths ==
  <<[name |-> K_toxworkdir, publish |-> TRUE,
     default |-> Some(<<"{","t","o","x","i","n","i","d","i","r","}","/",".","t","o","x">>)],
    [name |-> K_distdir, publish |-> TRUE,
     default |-> Some(<<"{","t","o","x","w","o","r","k","d","i","r","}","/","d","i","s","t">>)],
    [name |-> K_distshare, publish |-> TRUE,
     default |-> Some(<<"{","h","o","m","e","d","i","r","}","/",".","t","o","x","/","d","i","s","t","s","h","a","r","e">>)],
    [name |-> K_sdistsrc, publish |-> FALSE, default |-> None],
    [name |-> K_setupdir, publish |-> FALSE,
     default |-> Some(<<"{","t","o","x","i","n","i","d","i","r","}">>)]>>

\* the directory of the ini file and the home directory
Toxinidir == <<"/", "r">>

Homedir == <<"/", "h">>

K_noset == <<"n", "o", "s", "e", "t">>

\* Config(pluginmanager, option, interpreters)
Config0 ==
  [toxinidir |-> <<>>, homedir |-> <<>>, hashseed |-> None, paths |-> <<>>,
   envlist |-> <<>>, envconfigs |-> <<>>, skipsdist |-> None, reported |-> ""]

\* parseini.__init__ up to the first read: config.toxinidir, the [tox]
\* reader with toxinidir and homedir, config.hashseed.  The keys
\* minversion, skip_missing_interpreters and indexserver and the options
\* -i and --workdir are not used by the ini files and command lines here.
CallParseini(m) ==
  LET reader == [SectionReader(K_tox, <<>>, None) EXCEPT
                   !.subs = [k \in {K_toxinidir, K_homedir} |->
                               IF k = K_toxinidir THEN Some(Toxinidir)
                               ELSE Some(Homedir)]]
  IN  IF Len(m.frames) >= RecursionLimit THEN Raise(m, "RecursionError")
      ELSE [WithReader(m, reader) EXCEPT
              !.frames = Append(@, [Frame0 EXCEPT !.kind = "parseini",
                                                  !.phase = "paths",
                                                  !.saved = Reader(m)]),
              !.config.toxinidir = Toxinidir,
              !.config.homedir = Homedir,
              !.config.hashseed = IF option.hashseed = K_noset THEN None
                                  ELSE Some(option.hashseed),
              !.mode = "run"]

\* all(name in config.envconfigs and config.envconfigs[name].usedevelop
\*     for name in config.envlist)
all_develop(c) ==
  \A i \in 1..Len(c.envlist) :
    /\ c.envlist[i] \in DOMAIN c.envconfigs
    /\ c.envconfigs[c.envlist[i]].attrs[K_usedevelop]

\* every environment passes
ConfiguredAlways(name, section, known) == TRUE

\* section in self._cfg or factors <= known_factors
Configured(name, section, known) ==
  section \in DOMAIN cfg \/ Range(Split(name, "-")) \subseteq known

\* parseini.__init__ between two calls: the next [tox] path is read; then
\* the environments are listed; then the loop over all_envs takes the
\* environment name (a set has no order); then skipsdist is read
ParseiniStep(m, name) ==
  LET f == Top(m)
      Listed(d, st) ==
        IF ~d.ok \/ ~st.ok
        THEN Raise(m, "TypeError: '<=' not supported between 'set' and 'tuple'")
        ELSE [SetTop(m, [f EXCEPT !.phase = "envs", !.envs = d.all_envs,
                                  !.known = known_factors(st.v)])
                EXCEPT !.config.envlist = d.envlist]
      Taken(f1, section) ==
        IF Configured(name, section, f.known)
        THEN CallMakeEnvconfig(SetTop(m, f1), name, section)
        ELSE SetTop(m, f1)
  IN  CASE f.phase = "paths" /\ f.pos <= Len(tox_paths) ->
             PushFrame(m, [Frame0 EXCEPT !.kind = "getter", !.getter = "getpath",
                                         !.name = tox_paths[f.pos].name,
                                         !.default = tox_paths[f.pos].default,
                                         !.replace = TRUE])
        [] f.phase = "paths" /\ f.pos > Len(tox_paths) ->
             Listed(_getenvdata, IniEnvlist)
        [] f.phase = "envs" /\ f.envs # {} ->
             Taken([f EXCEPT !.envs = @ \ {name}, !.name = name],
                   testenvprefix \o name)
        [] f.phase = "envs" /\ f.envs = {} ->
             PushFrame(SetTop(m, [f EXCEPT !.phase = "skipsdist"]),
                       [Frame0 EXCEPT !.kind = "getter", !.getter = "getbool",
                                      !.name = K_skipsdist, !.replace = TRUE,
                                      !.bdefault = Some(all_develop(m.config))])

\* a call made by parseini.__init__ returned
ParseiniResume(m) ==
  LET f == Top(m)
  IN  CASE f.phase = "paths" ->
             [SetTop(m, [f EXCEPT !.pos = @ + 1]) EXCEPT
                !.config.paths = Put(@, tox_paths[f.pos].name, m.retval),
                !.subs = IF tox_paths[f.pos].publish
                         THEN Put(@, tox_paths[f.pos].name, m.retval) ELSE @,
                !.mode = "run"]
        [] f.phase = "envs" ->
             [m EXCEPT !.config.envconfigs = Put(@, f.name, m.retval),
                       !.mode = "run"]
        [] f.phase = "skipsdist" ->
             Return([WithReader(PopFrame(m), f.saved) EXCEPT
                       !.config.skipsdist = Some(m.retval)],
                    None)

\* parseconfig: parseini(config, inipath) is called
ParseconfigStep(m) == CallParseini(m)

\* parseconfig: parseini returned, the config is returned
ParseconfigResume(m) == Return(PopFrame(m), None)

\* ------------------------------------------------------------------------
\* Exceptions
\* ------------------------------------------------------------------------

\* the unwinding of a _replace whose pop is not in a finally clause
UnwindKeepsEntry(m) ==
  LET f == Top(m)
      m1 == PopFrame(m)
  IN  CASE f.kind = "setenvget" /\ f.phase = "await" ->
             [m1 EXCEPT !.setenv.lookupstack = Front(@)]
        [] f.kind = "make_envconfig" -> [WithReader(m1, f.saved) EXCEPT !.vc = None]
        [] f.kind = "parseini" -> WithReader(m1, f.saved)
        [] f.kind = "parseconfig" /\ m.error = "InterpreterNotFound" ->
             [m1 EXCEPT !.mode = "return", !.retval = None, !.error = "",
                        !.config.reported = "ERROR: InterpreterNotFound"]
        [] OTHER -> m1

\* an exception leaves the innermost call: the finally clauses of _replace
\* and of SetenvDict.get run; the reader of the caller is the current one
\* again; parseconfig catches InterpreterNotFound and prints it
Unwind(m) ==
  LET f == Top(m)
      m1 == PopFrame(m)
  IN  CASE f.kind = "replace" -> PopSubst(m1, f)
        [] f.kind = "setenvget" /\ f.phase = "await" ->
             [m1 EXCEPT !.setenv.lookupstack = Front(@)]
        [] f.kind = "make_envconfig" -> [WithReader(m1, f.saved) EXCEPT !.vc = None]
        [] f.kind = "parseini" -> WithReader(m1, f.saved)
        [] f.kind = "parseconfig" /\ m.error = "InterpreterNotFound" ->
             [m1 EXCEPT !.mode = "return", !.retval = None, !.error = "",
                        !.config.reported = "ERROR: InterpreterNotFound"]
        [] OTHER -> m1

\* ------------------------------------------------------------------------
\* Inputs: the ini file, the process environment, the positional arguments
\* ------------------------------------------------------------------------

SecA == <<"A">>

SecB == <<"B">>

SecT == <<"T">>

KeyK == <<"k">>

KeyJ == <<"j">>

KeyS == <<"s">>

KeyC == <<"c">>

EnvX == <<"X">>

EnvY == <<"Y">>

\* '{[B]j}', 'x{[B]j}y', '{[A]k}', '{[B]j:d}', '{[B]q}', '{[C]j}', '{env:[B]j}'
KRefVals ==
  {<<"{","[","B","]","j","}">>,
   <<"x","{","[","B","]","j","}","y">>,
   <<"{","[","A","]","k","}">>,
   <<"{","[","B","]","j",":","d","}">>,
   <<"{","[","B","]","q","}">>,
   <<"{","[","C","]","j","}">>,
   <<"{","e","n","v",":","[","B","]","j","}">>}

\* '{[A]k}', 'v', '{', '{env:X:d}', '{[B]j}', '{a}'
JVals ==
  {<<"{","[","A","]","k","}">>,
   <<"v">>,
   <<"{">>,
   <<"{","e","n","v",":","X",":","d","}">>,
   <<"{","[","B","]","j","}">>,
   <<"{","a","}">>}

\* '{env:X}', '{env:X:d}', '{env:X:}', '{env:}', '{a}', '{a}{g}', '{}', '{opts}', '{z:y}', '{q}', 'p', '\{a}', '{a,b}', ' p\n\nq '
KPlainVals ==
  {<<"{","e","n","v",":","X","}">>,
   <<"{","e","n","v",":","X",":","d","}">>,
   <<"{","e","n","v",":","X",":","}">>,
   <<"{","e","n","v",":","}">>,
   <<"{","a","}">>,
   <<"{","a","}","{","g","}">>,
   <<"{","}">>,
   <<"{","o","p","t","s","}">>,
   <<"{","z",":","y","}">>,
   <<"{","q","}">>,
   <<"p">>,
   <<"\\","{","a","}">>,
   <<"{","a",",","b","}">>,
   <<" ","p","\n","\n","q"," ">>}

\* 'X=1\nY={X}', 'X=1\nY={env:X}', 'X={env:X}', 'X={env:X:d}', 'X={env:Y}\nY={env:X}', 'X={env:Y}\nY={g}', 'Y={env:W}', 'X={[B]j}', 'X=1', 'bad'
SVals ==
  {<<"X","=","1","\n","Y","=","{","X","}">>,
   <<"X","=","1","\n","Y","=","{","e","n","v",":","X","}">>,
   <<"X","=","{","e","n","v",":","X","}">>,
   <<"X","=","{","e","n","v",":","X",":","d","}">>,
   <<"X","=","{","e","n","v",":","Y","}","\n","Y","=","{","e","n","v",":","X","}">>,
   <<"X","=","{","e","n","v",":","Y","}","\n","Y","=","{","g","}">>,
   <<"Y","=","{","e","n","v",":","W","}">>,
   <<"X","=","{","[","B","]","j","}">>,
   <<"X","=","1">>,
   <<"b","a","d">>}

\* '{env:X}', '{env:X:d}', '{env:Y:d}', '{env:Y}'
KEnvVals ==
  {<<"{","e","n","v",":","X","}">>,
   <<"{","e","n","v",":","X",":","d","}">>,
   <<"{","e","n","v",":","Y",":","d","}">>,
   <<"{","e","n","v",":","Y","}">>}

\* '{[B]j}', '{[A,B]k}', 'e {env:X:d}', 'e \\n {posargs}', 'e \', '{[B]j} x', 'e {a}', '{[A]c}', '{[A]k}', 'e {posargs:{env:X:d}} []', '{posargs}', '[]', 'x\n\', 'x[] {posargs}y'
CVals ==
  {<<"{","[","B","]","j","}">>,
   <<"{","[","A",",","B","]","k","}">>,
   <<"e"," ","{","e","n","v",":","X",":","d","}">>,
   <<"e"," ","\\","\n"," ","{","p","o","s","a","r","g","s","}">>,
   <<"e"," ","\\">>,
   <<"{","[","B","]","j","}"," ","x">>,
   <<"e"," ","{","a","}">>,
   <<"{","[","A","]","c","}">>,
   <<"{","[","A","]","k","}">>,
   <<"e"," ","{","p","o","s","a","r","g","s",":","{","e","n","v",":","X",":","d","}","}"," ","[","]">>,
   <<"{","p","o","s","a","r","g","s","}">>,
   <<"[","]">>,
   <<"x","\n","\\">>,
   <<"x","[","]"," ","{","p","o","s","a","r","g","s","}","y">>}

\* 'v w', 'e\nf', '{', '{[A]c}', 'f \\n\n'
CJVals ==
  {<<"v"," ","w">>,
   <<"e","\n","f">>,
   <<"{">>,
   <<"{","[","A","]","c","}">>,
   <<"f"," ","\\","\n","\n">>}

\* '{[B]j}[A]k}', 'p'
CKVals ==
  {<<"{","[","B","]","j","}","[","A","]","k","}">>,
   <<"p">>}

\* a section from (key, optional value) pairs; a key with None is absent
SectionOf(pairs) ==
  [key \in {p[1] : p \in {q \in pairs : q[2] # None}} |->
     (CHOOSE p \in pairs : p[1] = key)[2][1]]

\* the ini file with [A] k, s, c and [B] j
CfgOf(k, j, s, c) ==
  [sec \in {SecA, SecB} |->
     IF sec = SecA THEN SectionOf({<<KeyK, k>>, <<KeyS, s>>, <<KeyC, c>>})
     ELSE SectionOf({<<KeyJ, j>>})]

NoEnviron == <<>>

EnvironX == [n \in {EnvX} |-> <<"p">>]

Scenario(c, e, p) == [cfg |-> c, environ |-> e, posargs |-> p]

\* the positional arguments: none; a, b; 'a b' and an empty one
PosargsVals == {<<>>, <<<<"a">>, <<"b">>>>, <<<<"a", " ", "b">>, <<>>>>}

\* references between sections; values without references; an
\* environment mapping; command blocks
Scenarios ==
  {Scenario(CfgOf(Some(k), j, None, None), NoEnviron, <<>>) :
     k \in KRefVals, j \in {Some(v) : v \in JVals} \cup {None}}
  \cup
  {Scenario(CfgOf(Some(k), Some(<<"v">>), None, None), e, <<>>) :
     k \in KPlainVals, e \in {NoEnviron, EnvironX}}
  \cup
  {Scenario(CfgOf(Some(k), Some(<<"v">>), Some(s), Some(<<"e", " ", "{", "e", "n", "v", ":", "X", ":", "d", "}">>)),
            e, <<>>) :
     k \in KEnvVals, s \in SVals, e \in {NoEnviron, EnvironX}}
  \cup
  {Scenario(CfgOf(Some(k), Some(j), None, Some(c)), NoEnviron, p) :
     k \in CKVals, j \in CJVals, c \in CVals, p \in PosargsVals}

\* the [tox] sections: none of the keys; envlist = py27,e1; envlist = py{27,35}-a;
\* toxworkdir = w and envlist = py27; envlist = 'py: py27'
ToxVals ==
  {<<>>,
   (K_envlist :> <<"p","y","2","7",",","e","1">>),
   (K_envlist :> <<"p","y","{","2","7",",","3","5","}","-","a">>),
   (K_toxworkdir :> <<"w">> @@
      K_envlist :> <<"p","y","2","7">>),
   (K_envlist :> <<"p","y",":"," ","p","y","2","7">>)}

\* the [testenv] sections
TestenvVals ==
  {(K_envdir :> <<"v","/","{","e","n","v","n","a","m","e","}">> @@
      K_commands :> <<"e"," ","{","e","n","v","t","m","p","d","i","r","}">>),
   (K_setenv :> <<"A","=","{","e","n","v","d","i","r","}","\n","B","=","{","e","n","v",":","A","}">> @@
      K_commands :> <<"e"," ","{","e","n","v",":","B","}"," ","{","e","n","v","s","i","t","e","p","a","c","k","a","g","e","s","d","i","r","}">>),
   (K_envtmpdir :> <<"{","n","o","k","e","y","}">>),
   (K_commands :> <<"p","y","2","7",":"," ","e"," ","a","\n","p","y","3","5",":"," ","e"," ","b">> @@
      K_usedevelop :> <<"p","y","2","7",":"," ","t","r","u","e">>),
   (K_changedir :> <<"{","e","n","v","b","i","n","d","i","r","}">> @@
      K_basepython :> <<"j","y","t","h","o","n">> @@
      K_commands :> <<"{","e","n","v","p","y","t","h","o","n","}">>)}

\* the [testenv:e1] sections
E1Vals ==
  {(K_changedir :> <<"{","e","n","v","d","i","r","}","/","x">> @@
      K_usedevelop :> <<"T","r","u","e">>),
   (K_envdir :> <<"/","a","b","s">> @@
      K_commands :> <<"{","[","A",",","B","]","k","}">>),
   (K_commands :> <<"e">>)}

K_e1 == <<"e", "1">>

\* the ini file with [tox], [testenv] and [testenv:e1]; a section that is
\* None is absent
IniOf(tox, testenv, e1) ==
  LET secs == {<<K_tox, tox>>, <<K_testenv, testenv>>, <<testenvprefix \o K_e1, e1>>}
  IN  [name \in {p[1] : p \in {q \in secs : q[2] # None}} |->
         (CHOOSE p \in secs : p[1] = name)[2][1]]

\* the values of -e
EnvOptions ==
  {<<>>, <<<<"f", "o", "o">>>>, <<K_ALL>>,
   <<<<"p", "y", "2", "7", ",", "f", "o", "o", "-", "p", "y", "2", "7">>>>}

\* TOXENV is unset or x-py27
ToxenvVals == {<<>>, [n \in {K_TOXENV} |-> <<"x", "-", "p", "y", "2", "7">>]}

Option0 == [env |-> <<>>, hashseed |-> K_noset, develop |-> FALSE]

ParseScenario(ini, env, opt, interp) ==
  [cfg |-> ini, environ |-> env, option |-> opt, interpreters |-> interp]

\* command lines and ini files that select environments; ini files whose
\* attributes refer to each other, with the options and interpreters
ParseScenarios ==
  {ParseScenario(IniOf(Some(tox), testenv, e1), toxenv,
                 [Option0 EXCEPT !.env = env], "found") :
     tox \in ToxVals,
     testenv \in {None, Some((K_commands :> <<"p", "y", "2", "7", ":", " ", "e">>))},
     e1 \in {None, Some(<<>>)},
     env \in EnvOptions,
     toxenv \in ToxenvVals}
  \cup
  {ParseScenario(IniOf(Some((K_envlist :> <<"p", "y", "2", "7", ",", "e", "1">>)),
                       Some(testenv), e1),
                 NoEnviron, o.opt, o.interp) :
     testenv \in TestenvVals,
     e1 \in {None} \cup {Some(v) : v \in E1Vals},
     o \in {[opt |-> Option0, interp |-> "found"],
            [opt |-> Option0, interp |-> "notfound"],
            [opt |-> [Option0 EXCEPT !.hashseed = <<"7">>, !.develop = TRUE],
             interp |-> "found"]}}

\* the namespace: alpha -> "b/{g}", gamma -> "X"
Namespace ==
  [n \in {<<"a">>, <<"g">>} |->
     IF n = <<"a">> THEN Some(<<"b", "/", "{", "g", "}">>) ELSE Some(<<"X">>)]

\* ------------------------------------------------------------------------
\* The resolver as a state machine
\* ------------------------------------------------------------------------

\* a SectionReader of section A with the fallback section T has been made
ReaderInit ==
  /\ \E sc \in Scenarios :
       /\ cfg = sc.cfg
       /\ environ = sc.environ
       /\ posargs = sc.posargs
  /\ option = Option0
  /\ interpreters = "found"
  /\ section_name = SecA
  /\ fallbacksections = <<SecT>>
  /\ factors = None
  /\ subs = Namespace

\* the program starts: no reader yet
ParseInit ==
  /\ \E sc \in ParseScenarios :
       /\ cfg = sc.cfg
       /\ environ = sc.environ
       /\ option = sc.option
       /\ interpreters = sc.interpreters
  /\ posargs = <<>>
  /\ section_name = <<>>
  /\ fallbacksections = <<>>
  /\ factors = None
  /\ subs = <<>>

Init ==
  /\ ReaderInit \/ ParseInit
  /\ config = Config0
  /\ vc = None
  /\ subststack = <<>>
  /\ setenv = NoSetenv
  /\ frames = <<>>
  /\ mode = "idle"
  /\ retval = None
  /\ error = ""
  /\ call = [op |-> "", name |-> <<>>, default |-> None, crossonly |-> FALSE]
  /\ outcome = "none"

Apply(m) ==
  /\ frames' = m.frames
  /\ subststack' = m.subststack
  /\ setenv' = m.setenv
  /\ mode' = m.mode
  /\ retval' = m.retval
  /\ error' = m.error
  /\ section_name' = m.section_name
  /\ fallbacksections' = m.fallbacksections
  /\ factors' = m.factors
  /\ subs' = m.subs
  /\ posargs' = m.posargs
  /\ config' = m.config
  /\ vc' = m.vc

\* an operation is invoked on the idle reader
Invoke(c, f) ==
  /\ mode = "idle"
  /\ call' = c
  /\ outcome' = "none"
  /\ Apply(PushFrame([Machine EXCEPT !.retval = None, !.error = ""], f))
  /\ UNCHANGED inputVars

\* reader.getstring(name, default, replace=True, crossonly)
Getstring(name, default, crossonly) ==
  /\ section_name # <<>>
  /\ Invoke([op |-> "getstring", name |-> name, default |-> default,
          crossonly |-> crossonly],
         [Frame0 EXCEPT !.kind = "getter", !.getter = "getstring", !.name = name,
                        !.default = default, !.replace = TRUE,
                        !.crossonly = crossonly])

\* reader.getdict_setenv(name)
GetdictSetenv(name) ==
  /\ section_name # <<>>
  /\ Invoke([op |-> "getdict_setenv", name |-> name, default |-> None,
          crossonly |-> TRUE],
         [Frame0 EXCEPT !.kind = "getter", !.getter = "getdict_setenv",
                        !.name = name, !.replace = TRUE, !.crossonly = TRUE])

\* reader.getargvlist(name)
Getargvlist(name) ==
  /\ section_name # <<>>
  /\ Invoke([op |-> "getargvlist", name |-> name, default |-> Some(<<>>),
          crossonly |-> FALSE],
         [Frame0 EXCEPT !.kind = "getter", !.getter = "getargvlist",
                        !.name = name, !.default = Some(<<>>)])

\* parseconfig(args)
Parseconfig ==
  /\ section_name = <<>>
  /\ call.op = ""
  /\ Invoke([op |-> "parseconfig", name |-> <<>>, default |-> None,
             crossonly |-> FALSE],
            [Frame0 EXCEPT !.kind = "parseconfig"])

\* reader._setenv.get(name)
SetenvLookup(name) ==
  /\ setenv.active
  /\ Invoke([op |-> "setenv.get", name |-> name, default |-> None,
             crossonly |-> FALSE],
            [Frame0 EXCEPT !.kind = "setenvget", !.phase = "start", !.name = name])

\* the innermost call takes its next step
Running(kind) == mode = "run" /\ frames # <<>> /\ Top(Machine).kind = kind

\* a call returned to the call below it
Resuming(kind) == mode = "return" /\ frames # <<>> /\ Top(Machine).kind = kind

Rest == UNCHANGED <<inputVars, call, outcome>>

GetterStartStep == Running("getter") /\ Apply(GetterStart(Machine)) /\ Rest

GetterResumeStep == Resuming("getter") /\ Apply(GetterResume(Machine)) /\ Rest

DoReplaceStep == Running("replace") /\ Apply(ReplaceStep(Machine)) /\ Rest

DoReplaceResume == Resuming("replace") /\ Apply(ReplaceResume(Machine)) /\ Rest

SetenvGetStep ==
  /\ Running("setenvget")
  /\ Top(Machine).phase = "start"
  /\ Apply(SetenvGet(Machine))
  /\ Rest

SetenvGetResume == Resuming("setenvget") /\ Apply(SetenvResume(Machine)) /\ Rest

GetargvlistStep == Running("argvlist") /\ Apply(ArgvlistStep(Machine)) /\ Rest

GetargvlistResume == Resuming("argvlist") /\ Apply(ArgvlistResume(Machine)) /\ Rest

ProcesscommandStep == Running("processcommand") /\ Apply(ProcStep(Machine)) /\ Rest

ProcesscommandResume ==
  Resuming("processcommand") /\ Apply(ProcResume(Machine)) /\ Rest

MakeEnvconfigLoop ==
  Running("make_envconfig") /\ Apply(MakeEnvconfigStep(Machine)) /\ Rest

MakeEnvconfigStore ==
  Resuming("make_envconfig") /\ Apply(MakeEnvconfigResume(Machine)) /\ Rest

ParseiniRun ==
  /\ Running("parseini")
  /\ \E name \in (IF Top(Machine).envs = {} THEN {<<>>} ELSE Top(Machine).envs) :
       Apply(ParseiniStep(Machine, name))
  /\ Rest

ParseiniReturned == Resuming("parseini") /\ Apply(ParseiniResume(Machine)) /\ Rest

ParseconfigRun == Running("parseconfig") /\ Apply(ParseconfigStep(Machine)) /\ Rest

ParseconfigReturned ==
  Resuming("parseconfig") /\ Apply(ParseconfigResume(Machine)) /\ Rest

\* an exception propagates out of the innermost call
Propagate == mode = "raise" /\ frames # <<>> /\ Apply(Unwind(Machine)) /\ Rest

\* the operation returned or raised to its caller
Finish ==
  /\ mode \in {"return", "raise"}
  /\ frames = <<>>
  /\ mode' = "idle"
  /\ outcome' = IF mode = "return" THEN "returned" ELSE "raised"
  /\ UNCHANGED <<inputVars, readerVars, subststack, setenv, frames, retval,
                 error, call, config, vc>>

Step ==
  \/ GetterStartStep
  \/ GetterResumeStep
  \/ DoReplaceStep
  \/ DoReplaceResume
  \/ SetenvGetStep
  \/ SetenvGetResume
  \/ GetargvlistStep
  \/ GetargvlistResume
  \/ ProcesscommandStep
  \/ ProcesscommandResume
  \/ MakeEnvconfigLoop
  \/ MakeEnvconfigStore
  \/ ParseiniRun
  \/ ParseiniReturned
  \/ ParseconfigRun
  \/ ParseconfigReturned
  \/ Propagate
  \/ Finish

Next ==
  \/ \E crossonly \in BOOLEAN : Getstring(KeyK, None, crossonly)
  \/ GetdictSetenv(KeyS)
  \/ Getargvlist(KeyC)
  \/ \E name \in {EnvX, EnvY} : SetenvLookup(name)
  \/ Parseconfig
  \/ Step

Spec == Init /\ [][Next]_vars

\* ------------------------------------------------------------------------
\* The functions of the module, called on their own
\* ------------------------------------------------------------------------

\* the most segments of an environment expression
MaxSegments == 2

\* the longest string of characters handed to a function
MaxLen == 4

\* the most lines of a raw value
MaxLines == 3

\* a position of an environment expression: literal text, or a brace
\* group {v1,v2,...} of alternatives
Literal(text) == [group |-> FALSE, alts |-> <<text>>]

Group(alts) == [group |-> TRUE, alts |-> alts]

\* 'p', ' ', '{a,b}', '{b}', '{a,a}'
PositionVals ==
  {Literal(<<"p">>), Literal(<<" ">>), Group(<<<<"a">>, <<"b">>>>),
   Group(<<<<"b">>>>), Group(<<<<"a">>, <<"a">>>>)}

\* a segment is what stands between two top-level commas
SegmentVals == UNION {[1..n -> PositionVals] : n \in 0..2}

\* 'py{27,36}-{dj16,dj17}'
ExampleExpr ==
  <<<<Literal(<<"p", "y">>), Group(<<<<"2", "7">>, <<"3", "6">>>>),
      Literal(<<"-">>),
      Group(<<<<"d", "j", "1", "6">>, <<"d", "j", "1", "7">>>>)>>>>

ExpressionVals ==
  UNION {[1..n -> SegmentVals] : n \in 1..MaxSegments} \cup {ExampleExpr}

\* the text of an expression
RenderPosition(p) ==
  IF p.group THEN <<"{">> \o Join(<<",">>, p.alts) \o <<"}">> ELSE p.alts[1]

RenderSegment(seg) == Concat([i \in 1..Len(seg) |-> RenderPosition(seg[i])])

Render(e) == Join(<<",">>, [i \in 1..Len(e) |-> RenderSegment(e[i])])

EnvstrChars == {"a", "b", ",", " ", "{", "}"}

EnvstrVals == UNION {[1..n -> EnvstrChars] : n \in 0..MaxLen}

\* the factor sets of a reader: the default (), {}, {a}, {a, b}
FactorVals == {None, Some({}), Some({<<"a">>}), Some({<<"a">>, <<"b">>})}

FactorChars == {"a", "b", ",", "-", "{", "}"}

\* the lines 'expr: v'
FactorLineVals ==
  {expr \o <<":", " ", "v">> : expr \in UNION {[1..n -> FactorChars] : n \in 1..MaxLen}}

\* the lines '', ' ', 'x', ' x', 'a:v', 'a: v', 'b: w'
LineVals ==
  {<<>>, <<" ">>, <<"x">>, <<" ", "x">>, <<"a", ":", "v">>,
   <<"a", ":", " ", "v">>, <<"b", ":", " ", "w">>}

\* the raw values of up to MaxLines of these lines
ValueVals ==
  {Join(<<"\n">>, ls) : ls \in UNION {[1..n -> LineVals] : n \in 1..MaxLines}}

\* a SectionReader of section A has been made with its factors; nothing
\* has been called yet
UnitInit ==
  /\ cfg = <<>>
  /\ environ = NoEnviron
  /\ option = Option0
  /\ interpreters = "found"
  /\ section_name = SecA
  /\ fallbacksections = <<>>
  /\ factors \in FactorVals
  /\ subs = <<>>
  /\ posargs = <<>>
  /\ config = Config0
  /\ vc = None
  /\ subststack = <<>>
  /\ setenv = NoSetenv
  /\ frames = <<>>
  /\ mode = "idle"
  /\ retval = None
  /\ error = ""
  /\ call = [op |-> "", name |-> <<>>, default |-> None, crossonly |-> FALSE]
  /\ outcome = "none"

\* nothing has been called yet
Fresh == mode = "idle" /\ call.op = ""

\* a function is called with the argument arg: it returns value, or
\* raises err when err is not empty
Called(op, arg, value, err) ==
  /\ call' = [op |-> op, name |-> arg, default |-> None, crossonly |-> FALSE]
  /\ retval' = value
  /\ error' = err
  /\ outcome' = IF err = "" THEN "returned" ELSE "raised"
  /\ UNCHANGED <<inputVars, readerVars, subststack, setenv, frames, mode,
                 config, vc>>

\* _expand_envstr(envstr) for the text of the expression e; call.name
\* keeps the expression as segments of positions
ExpandExpr ==
  /\ Fresh
  /\ \E e \in ExpressionVals : Called("expand", e, _expand_envstr(Render(e)), "")

\* _expand_envstr(envstr) for a string of characters
ExpandEnvstr ==
  /\ Fresh
  /\ \E envstr \in EnvstrVals :
       Called("_expand_envstr", envstr, _expand_envstr(envstr), "")

\* reader._apply_factors(s) for a line 'expr: v' or a raw value
ApplyFactors ==
  LET Result(s, r) ==
        IF r.ok THEN Called("_apply_factors", s, r.v, "")
        ELSE Called("_apply_factors", s, None,
                    "TypeError: '<=' not supported between 'set' and 'tuple'")
  IN  /\ Fresh
      /\ \E s \in FactorLineVals \cup ValueVals : Result(s, _apply_factors(s))

UnitNext == ExpandExpr \/ ExpandEnvstr \/ ApplyFactors

UnitSpec == UnitInit /\ [][UnitNext]_vars

\* ------------------------------------------------------------------------
\* getstring over the chain of sections
\* ------------------------------------------------------------------------

\* a section in the ini file: missing, without the key k, or with a value
\* of k
SectionVals(values) ==
  {None, Some(SectionOf({<<KeyJ, Some(<<"j">>)>>}))}
  \cup {Some(SectionOf({<<KeyK, Some(v)>>})) : v \in values}

\* the ini file of the sections A, T and B that are not missing
ChainCfg(a, t, b) ==
  LET Of(sec) == IF sec = SecA THEN a ELSE IF sec = SecT THEN t ELSE b
  IN  [sec \in {s \in {SecA, SecT, SecB} : Of(s) # None} |-> Of(sec)[1]]

\* [A] k = 'a' or '', [T] k = 't', [B] k = 'b'
ChainCfgVals ==
  {ChainCfg(a, t, b) : a \in SectionVals({<<"a">>, <<>>}),
                       t \in SectionVals({<<"t">>}),
                       b \in SectionVals({<<"b">>})}

FallbackVals == {<<>>, <<SecT>>, <<SecB>>, <<SecT, SecB>>, <<SecB, SecT>>}

\* a SectionReader of section A has been made with its fallback sections
LookupInit ==
  /\ cfg \in ChainCfgVals
  /\ environ = NoEnviron
  /\ option = Option0
  /\ interpreters = "found"
  /\ section_name = SecA
  /\ fallbacksections \in FallbackVals
  /\ factors = None
  /\ subs = <<>>
  /\ posargs = <<>>
  /\ config = Config0
  /\ vc = None
  /\ subststack = <<>>
  /\ setenv = NoSetenv
  /\ frames = <<>>
  /\ mode = "idle"
  /\ retval = None
  /\ error = ""
  /\ call = [op |-> "", name |-> <<>>, default |-> None, crossonly |-> FALSE]
  /\ outcome = "none"

LookupNext ==
  \/ \E default \in {None, Some(<<"d">>)} : Getstring(KeyK, default, FALSE)
  \/ GetterStartStep
  \/ Finish

LookupSpec == LookupInit /\ [][LookupNext]_vars

\* ------------------------------------------------------------------------
\* CommandParser.words, one character at a time
\* ------------------------------------------------------------------------

CommandChars == {"a", " ", "{", "}", "\\"}

\* the commands of up to MaxLen of these characters, and 'a \{b} c',
\* '{a {b} c} d'
CommandVals ==
  UNION {[1..n -> CommandChars] : n \in 0..MaxLen}
  \cup {<<"a", " ", "\\", "{", "b", "}", " ", "c">>,
        <<"{", "a", " ", "{", "b", "}", " ", "c", "}", " ", "d">>}

\* a CommandParser is about to be made; nothing has been called yet
WordsInit ==
  /\ cfg = <<>>
  /\ environ = NoEnviron
  /\ option = Option0
  /\ interpreters = "found"
  /\ section_name = SecA
  /\ fallbacksections = <<>>
  /\ factors = None
  /\ subs = <<>>
  /\ posargs = <<>>
  /\ config = Config0
  /\ vc = None
  /\ subststack = <<>>
  /\ setenv = NoSetenv
  /\ frames = <<>>
  /\ mode = "idle"
  /\ retval = None
  /\ error = ""
  /\ call = [op |-> "", name |-> <<>>, default |-> None, crossonly |-> FALSE]
  /\ outcome = "none"

\* the parser state ps of the call in the frame f
State(f) == [word |-> f.word, depth |-> f.depth, yield_words |-> f.wordsq]

\* the frame f with the parser state ps
WithState(f, ps) ==
  [f EXCEPT !.word = ps.word, !.depth = ps.depth, !.wordsq = ps.yield_words]

\* the parser is scanning
Scanning == mode = "run" /\ frames # <<>> /\ Last(frames).kind = "words"

\* CommandParser(command).words() is called: ps = CommandParser.State()
Words ==
  /\ Fresh
  /\ \E command \in CommandVals :
       /\ call' = [op |-> "words", name |-> command, default |-> None,
                   crossonly |-> FALSE]
       /\ frames' = <<[Frame0 EXCEPT !.kind = "words", !.value = command]>>
  /\ mode' = "run"
  /\ UNCHANGED <<inputVars, readerVars, subststack, setenv, retval, error,
                 config, vc, outcome>>

\* one turn of the loop: for cur_char in self.command
WordsChar ==
  LET Turn(f) == [WithState(f, WordsStep(State(f), f.value[f.pos]))
                    EXCEPT !.pos = @ + 1]
  IN  /\ Scanning
      /\ Last(frames).pos <= Len(Last(frames).value)
      /\ frames' = <<Turn(Last(frames))>>
      /\ UNCHANGED <<inputVars, readerVars, subststack, setenv, mode, retval,
                     error, config, vc, call, outcome>>

\* the loop is over: the last word is yielded unless it is blank, and the
\* words are returned
WordsReturn ==
  LET ps == State(Last(frames))
  IN  /\ Scanning
      /\ Last(frames).pos > Len(Last(frames).value)
      /\ retval' = IF Strip(ps.word) # <<>> THEN yield_this_word(ps).yield_words
                   ELSE ps.yield_words
      /\ frames' = <<>>
      /\ mode' = "idle"
      /\ outcome' = "returned"
      /\ UNCHANGED <<inputVars, readerVars, subststack, setenv, error, config,
                     vc, call>>

WordsNext == Words \/ WordsChar \/ WordsReturn

WordsSpec == WordsInit /\ [][WordsNext]_vars

\* ------------------------------------------------------------------------
\* The SetenvDict of a reader, used through get, __getitem__, __setitem__
\* ------------------------------------------------------------------------

\* '1', '{env:Y}', '{env:X}', '{env:X:d}', '{env:Y:d}', '{g}', '{env:W}',
\* '{env:Y}{g}'
DefinitionVals ==
  {<<"1">>,
   <<"{", "e", "n", "v", ":", "Y", "}", "{", "g", "}">>,
   <<"{", "e", "n", "v", ":", "Y", "}">>,
   <<"{", "e", "n", "v", ":", "X", "}">>,
   <<"{", "e", "n", "v", ":", "X", ":", "d", "}">>,
   <<"{", "e", "n", "v", ":", "Y", ":", "d", "}">>,
   <<"{", "g", "}">>,
   <<"{", "e", "n", "v", ":", "W", "}">>}

\* the definitions of X and of Y, each of them or none
DefinitionsVals ==
  UNION {[names -> DefinitionVals] : names \in SUBSET {EnvX, EnvY}}

\* getdict_setenv has made the SetenvDict of the reader of section A
SetenvInit ==
  /\ cfg = CfgOf(None, Some(<<"v">>), None, None)
  /\ environ \in {NoEnviron, EnvironX}
  /\ option = Option0
  /\ interpreters = "found"
  /\ section_name = SecA
  /\ fallbacksections = <<>>
  /\ factors = None
  /\ subs = <<>>
  /\ posargs = <<>>
  /\ config = Config0
  /\ vc = None
  /\ subststack = <<>>
  /\ \E definitions \in DefinitionsVals :
       setenv = [active |-> TRUE, definitions |-> definitions,
                 resolved |-> <<>>, lookupstack |-> <<>>]
  /\ frames = <<>>
  /\ mode = "idle"
  /\ retval = None
  /\ error = ""
  /\ call = [op |-> "", name |-> <<>>, default |-> None, crossonly |-> FALSE]
  /\ outcome = "none"

\* reader._setenv[name]
Getitem(name) ==
  /\ setenv.active
  /\ Invoke([op |-> "setenv.__getitem__", name |-> name, default |-> None,
             crossonly |-> FALSE],
            [Frame0 EXCEPT !.kind = "setenvgetitem", !.phase = "start",
                           !.name = name])

\* reader._setenv[name] = value
Setitem(name, value) ==
  /\ mode = "idle"
  /\ setenv.active
  /\ call' = [op |-> "setenv.__setitem__", name |-> name,
              default |-> Some(value), crossonly |-> FALSE]
  /\ setenv' = SetenvSetitem(setenv, name, value)
  /\ retval' = None
  /\ error' = ""
  /\ outcome' = "returned"
  /\ UNCHANGED <<inputVars, readerVars, subststack, frames, mode, config, vc>>

GetitemStep ==
  /\ Running("setenvgetitem")
  /\ Top(Machine).phase = "start"
  /\ Apply(SetenvGetitem(Machine))
  /\ Rest

GetitemResume ==
  /\ Resuming("setenvgetitem")
  /\ Apply(SetenvGetitemResume(Machine))
  /\ Rest

SetenvNext ==
  \/ \E name \in {EnvX, EnvY} : SetenvLookup(name)
  \/ \E name \in {EnvX, EnvY} : Getitem(name)
  \/ \E name \in {EnvX, EnvY} : Setitem(name, <<"2">>)
  \/ GetitemStep
  \/ GetitemResume
  \/ SetenvGetStep
  \/ SetenvGetResume
  \/ DoReplaceStep
  \/ DoReplaceResume
  \/ Propagate
  \/ Finish

SetenvSpec == SetenvInit /\ [][SetenvNext]_vars

\* ------------------------------------------------------------------------
\* Properties
\* ------------------------------------------------------------------------

\* no element of the sequence occurs twice
NoDup(seq) == \A i, j \in 1..Len(seq) : seq[i] = seq[j] => i = j

\* the operation invoked last has ended
Done(op) == mode = "idle" /\ call.op = op /\ outcome # "none"

\* C1: resolving a value (getstring, SetenvDict.get, getargvlist with its
\* re-splitting of commands that look like a cross-section reference) ends
\* with a value or an error of the resolver; no input makes the resolution
\* recurse without end, which the interpreter stops with RecursionError.
C1_ResolutionTerminates == error # "RecursionError"

\* C2: the resolution stack _subststack never holds an entry twice, whether
\* the entry has a key name or not.
C2_NoEntryTwice == NoDup(subststack)

\* C2 (amended): the resolution stack never holds twice an entry that has a
\* key name; entries without a key name may repeat.
C2_NoKeyedEntryTwice ==
  \A i, j \in 1..Len(subststack) :
    (subststack[i] = subststack[j] /\ subststack[i][2] # None) => i = j

\* two entries with key names are on the stack, below an entry without one
C2_Witness ==
  \E i, j, n \in 1..Len(subststack) :
    /\ i < j
    /\ subststack[i][2] # None
    /\ subststack[j][2] # None
    /\ subststack[n][2] = None

\* do_replace is about to handle a reference {[S]k} to a pair (S, k) that
\* is on the resolution stack
CycleHit ==
  /\ Running("replace")
  /\ NextMatch(Top(Machine).value, Top(Machine).pos) # 0
  /\ LET f == Top(Machine)
         mt == MatchAt(f.value, NextMatch(f.value, f.pos))
         i == FindFrom(mt.value, 1, {"]"})
     IN  /\ StartsWith(mt.value, <<"[">>)
         /\ HasChar(mt.value, "]")
         /\ f.crossonly \/ (mt.sub_type = None /\ mt.value \notin DOMAIN subs)
         /\ <<Sub(mt.value, 2, i - 1), Some(From(mt.value, i + 1))>>
              \in Range(subststack)

\* C3: a reference to a (section, key) pair whose resolution is in progress
\* raises an error, and the error ends the operation without a value: no
\* default, empty string or partly substituted string is returned.
C3_CycleFails ==
  [][/\ CycleHit => (mode' = "raise" /\ error' # "")
     /\ (mode = "raise" /\ error = "ValueError: already in stack")
          => \/ mode' = "raise" /\ error' = error
             \/ mode' = "idle" /\ outcome' = "raised" /\ error' = error]_vars

\* getstring of A.k = {[B]j} with B.j = {[A]k} has raised the cycle error
C3_Witness ==
  /\ Done("getstring")
  /\ cfg[SecA][KeyK] = <<"{", "[", "B", "]", "j", "}">>
  /\ KeyJ \in DOMAIN cfg[SecB]
  /\ cfg[SecB][KeyJ] = <<"{", "[", "A", "]", "k", "}">>
  /\ outcome = "raised"
  /\ error = "ValueError: already in stack"

\* SetenvDict.get is about to look up a name that is on the lookup stack
InnerLookup ==
  /\ Running("setenvget")
  /\ Top(Machine).phase = "start"
  /\ Top(Machine).name \in Range(setenv.lookupstack)

\* C4: the lookup stack of the SetenvDict never holds a name twice; the
\* lookup of a name that is on the stack pushes nothing and returns the
\* value of the process environment, or None (undefined) without one.
C4_LookupStack ==
  /\ []NoDup(setenv.lookupstack)
  /\ [][InnerLookup =>
          /\ mode' = "return"
          /\ setenv' = setenv
          /\ retval' = IF Top(Machine).name \in DOMAIN environ
                       THEN Some(environ[Top(Machine).name]) ELSE None]_vars

\* the definition of X refers back to X: the inner lookup of X is running
C4_Witness == InnerLookup /\ Len(setenv.lookupstack) >= 1

\* getstring("k") without crossonly has ended
PlainGetstring == Done("getstring") /\ ~call.crossonly

\* C5: one resolve of "{alpha}" with the namespace alpha -> "b/{g}" and
\* g -> "X" returns "b/X", the placeholder inside the namespace value
\* expanded as well.
C5_NestedExpanded ==
  (PlainGetstring /\ cfg[SecA][KeyK] = <<"{", "a", "}">>)
    => (outcome = "returned" /\ retval = Some(<<"b", "/", "X">>))

\* C5 (amended): one resolve of a plain placeholder {k} whose name is in
\* the namespace returns the namespace value as it is: a placeholder
\* inside that value is not expanded ("{a}" gives "b/{g}").
C5_NamespaceVerbatim ==
  \A n \in DOMAIN subs :
    (PlainGetstring /\ Len(subs[n]) = 1 /\ cfg[SecA][KeyK] = <<"{">> \o n \o <<"}">>)
      => (outcome = "returned" /\ retval = subs[n])

\* "{a}" was resolved and the result still holds the placeholder {g}
C5_Witness ==
  /\ PlainGetstring
  /\ cfg[SecA][KeyK] = <<"{", "a", "}">>
  /\ outcome = "returned"
  /\ retval = Some(<<"b", "/", "{", "g", "}">>)

\* the value of A.k is one placeholder {env:V} or {env:V:d}
EnvPlaceholder(k) ==
  /\ MatchAt(k, 1).ok
  /\ MatchAt(k, 1).end = Len(k)
  /\ MatchAt(k, 1).sub_type = Some(<<"e", "n", "v">>)
  /\ MatchAt(k, 1).value # <<>>

\* the operation returned the string v
Returned(v) == outcome = "returned" /\ retval = Some(v)

\* C6: {env:V} or {env:V:d}, not crossonly: when V has a value in the
\* active SetenvDict (without a SetenvDict: in the process environment)
\* the result is that value; otherwise it is d when a default is given,
\* and an error without a default.
C6_EnvOrDefault ==
  (PlainGetstring /\ EnvPlaceholder(cfg[SecA][KeyK])) =>
    LET mt == MatchAt(cfg[SecA][KeyK], 1)
        has == IF setenv.active THEN mt.value \in DOMAIN setenv.resolved
               ELSE mt.value \in DOMAIN environ
    IN  IF has
        THEN Returned(IF setenv.active THEN setenv.resolved[mt.value]
                      ELSE environ[mt.value])
        ELSE IF mt.default # None THEN Returned(mt.default[1])
        ELSE outcome = "raised"

\* C6 (amended), for a placeholder outside the definition of V itself:
\* when the active SetenvDict defines V the result is the value its
\* lookup resolves, and the resolution fails when the definition of V
\* does not resolve, default or not; when the SetenvDict does not
\* define V, or none is active, the result is the value of V in the
\* process environment; without one it is d when a default is given (an
\* empty d too), and an error without a default.
C6_EnvLookup ==
  (PlainGetstring /\ EnvPlaceholder(cfg[SecA][KeyK])) =>
    LET mt == MatchAt(cfg[SecA][KeyK], 1)
    IN  IF setenv.active /\ mt.value \in DOMAIN setenv.definitions
        THEN IF mt.value \in DOMAIN setenv.resolved
             THEN Returned(setenv.resolved[mt.value])
             ELSE outcome = "raised"
        ELSE IF mt.value \in DOMAIN environ THEN Returned(environ[mt.value])
        ELSE IF mt.default # None THEN Returned(mt.default[1])
        ELSE outcome = "raised" /\ error = "ConfigError: unknown environment variable"

\* {env:X:d} was resolved with a SetenvDict that does not define X while
\* the process environment does: the result is the value of the process
\* environment
C6_Witness ==
  /\ PlainGetstring
  /\ cfg[SecA][KeyK] = <<"{", "e", "n", "v", ":", "X", ":", "d", "}">>
  /\ setenv.active
  /\ EnvX \notin DOMAIN setenv.definitions
  /\ EnvX \in DOMAIN environ
  /\ Returned(environ[EnvX])

\* the definitions X=1 and Y=v of a SetenvDict
Entries(v) == [n \in {EnvX, EnvY} |-> IF n = EnvX THEN <<"1">> ELSE v]

\* setenv.get("Y") has ended
LookedUpY == Done("setenv.get") /\ call.name = EnvY

\* C7: with the entries X=1 and Y={X}, looking up Y yields "1".
C7_PlainPlaceholder ==
  (LookedUpY /\ setenv.definitions = Entries(<<"{", "X", "}">>)) => Returned(<<"1">>)

\* C7 (amended): with the entries X=1 and Y={env:X}, looking up Y yields
\* "1"; a plain placeholder {X} in a definition is looked up in the
\* namespace and the sections, not in the SetenvDict, so that with Y={X}
\* the lookup of Y fails: substitution key not found.
C7_EnvPlaceholder ==
  /\ (LookedUpY /\ setenv.definitions = Entries(<<"{", "e", "n", "v", ":", "X", "}">>))
       => Returned(<<"1">>)
  /\ (LookedUpY /\ setenv.definitions = Entries(<<"{", "X", "}">>))
       => (outcome = "raised" /\ error = "ConfigError: substitution key not found")

\* Y={env:X} was looked up and gave the entry of X
C7_Witness ==
  /\ LookedUpY
  /\ setenv.definitions = Entries(<<"{", "e", "n", "v", ":", "X", "}">>)
  /\ Returned(<<"1">>)

\* the names of the declared attributes, and of those of type path
AttrNames == {testenv_attr[i].name : i \in 1..Len(testenv_attr)}

PathAttrs ==
  {testenv_attr[i].name : i \in {j \in 1..Len(testenv_attr) : testenv_attr[j].type = "path"}}

\* do_replace, not crossonly, is about to handle the placeholder {P} of a
\* path attribute P that make_envconfig has processed
PathPlaceholder ==
  /\ Running("replace")
  /\ vc # None
  /\ ~Top(Machine).crossonly
  /\ NextMatch(Top(Machine).value, Top(Machine).pos) # 0
  /\ LET mt == MatchAt(Top(Machine).value,
                       NextMatch(Top(Machine).value, Top(Machine).pos))
     IN  mt.sub_type = None /\ mt.value \in PathAttrs \cap DOMAIN vc.attrs

\* C8: in make_envconfig, once a path attribute P is processed, the
\* namespace holds under P's name its final value, an absolute path with
\* no placeholder left; a placeholder {P} resolved afterwards is replaced
\* by that path.
C8_PathPublished ==
  /\ [](vc # None =>
          \A P \in PathAttrs \cap DOMAIN vc.attrs :
            /\ P \in DOMAIN subs
            /\ subs[P] = vc.attrs[P]
            /\ vc.attrs[P] # None
            /\ Head(vc.attrs[P][1]) = "/"
            /\ ~HasChar(vc.attrs[P][1], "{"))
  /\ [][PathPlaceholder =>
          LET f == Top(Machine)
              i == NextMatch(f.value, f.pos)
          IN  /\ mode' = "run"
              /\ frames'[Len(frames)].out =
                   f.out \o Sub(f.value, f.pos, i - 1) \o vc.attrs[MatchAt(f.value, i).value][1]]_vars

\* envdir = v/{envname}: the default {envdir}/tmp of envtmpdir and the
\* command "e {envtmpdir}" were resolved with the absolute paths
C8_Witness ==
  /\ Done("parseconfig")
  /\ K_testenv \in DOMAIN cfg
  /\ K_envdir \in DOMAIN cfg[K_testenv]
  /\ cfg[K_testenv][K_envdir] = <<"v", "/", "{", "e", "n", "v", "n", "a", "m", "e", "}">>
  /\ <<"p", "y", "2", "7">> \in DOMAIN config.envconfigs
  /\ config.envconfigs[<<"p", "y", "2", "7">>].attrs[K_commands] =
       <<<<<<"e">>, <<"/", "r", "/", "v", "/", "p", "y", "2", "7", "/", "t", "m", "p">>>>>>

\* C9: every TestenvConfig in config.envconfigs has a value for every
\* declared attribute; config.envconfigs changes only when make_envconfig
\* has returned the complete TestenvConfig; an environment whose
\* make_envconfig is raising is not in config.envconfigs.
C9_OnlyCompleteStored ==
  /\ [](\A n \in DOMAIN config.envconfigs :
          /\ config.envconfigs[n].envname = n
          /\ DOMAIN config.envconfigs[n].attrs = AttrNames)
  /\ [](mode = "raise" =>
          \A i \in 1..Len(frames) :
            frames[i].kind = "make_envconfig" =>
              frames[i].name \notin DOMAIN config.envconfigs)
  /\ [][config'.envconfigs # config.envconfigs =>
          /\ Resuming("parseini")
          /\ DOMAIN retval.attrs = AttrNames
          /\ config'.envconfigs = Put(config.envconfigs, retval.envname, retval)]_vars

\* the parse ended with an error after one environment was stored: the
\* environment that failed is in the list and not in config.envconfigs
C9_Witness ==
  /\ Done("parseconfig")
  /\ outcome = "raised" \/ config.reported # ""
  /\ DOMAIN config.envconfigs # {}
  /\ \E i \in 1..Len(config.envlist) : config.envlist[i] \notin DOMAIN config.envconfigs

\* parseconfig returned the config and reported no error
Parsed == Done("parseconfig") /\ outcome = "returned" /\ config.reported = ""

\* C10: after parsing, every name of config.envlist has a TestenvConfig in
\* config.envconfigs: an environment without a section whose factors are
\* not all known is neither in config.envconfigs nor in config.envlist.
C10_ListFiltered ==
  Parsed => \A i \in 1..Len(config.envlist) :
              config.envlist[i] \in DOMAIN config.envconfigs

\* C10 (amended): after parsing, a name of config.envlist has a
\* TestenvConfig exactly when it has a section testenv:<name> or all its
\* factors are known; config.envlist is not filtered, so a name given by -e
\* or TOXENV with an unknown factor stays in it; when the list is taken
\* from the envlist of the ini file, all its names have a TestenvConfig.
C10_KnownConfigured ==
  Parsed =>
    /\ \A i \in 1..Len(config.envlist) :
         config.envlist[i] \in DOMAIN config.envconfigs
           <=> \/ testenvprefix \o config.envlist[i] \in DOMAIN cfg
               \/ Range(Split(config.envlist[i], "-"))
                    \subseteq (_list_section_factors(K_testenv)
                                 \cup DOMAIN default_factors \cup {K_python}
                                 \cup (IF K_tox \in DOMAIN cfg
                                          /\ K_envlist \in DOMAIN cfg[K_tox]
                                       THEN UNION {Range(Split(e, "-")) :
                                              e \in Range(_split_env(cfg[K_tox][K_envlist]))}
                                       ELSE {}))
    /\ (option.env = <<>> /\ K_TOXENV \notin DOMAIN environ)
         => \A i \in 1..Len(config.envlist) :
              config.envlist[i] \in DOMAIN config.envconfigs

\* -e names an environment with an unknown factor and no section: it is
\* in config.envlist and has no TestenvConfig, while another name has one
C10_Witness ==
  /\ Parsed
  /\ option.env # <<>>
  /\ \E i, j \in 1..Len(config.envlist) :
       /\ config.envlist[i] \notin DOMAIN config.envconfigs
       /\ config.envlist[j] \in DOMAIN config.envconfigs

\* the names of one segment: one name for each element of the Cartesian
\* product of the alternatives of its positions, in position order, the
\* leftmost position varying slowest
RECURSIVE Names(_)
Names(seg) ==
  LET Rows(alts, rest) ==
        [k \in 1..(Len(alts) * Len(rest)) |->
           alts[((k - 1) \div Len(rest)) + 1] \o rest[((k - 1) % Len(rest)) + 1]]
  IN  IF seg = <<>> THEN <<<<>>>> ELSE Rows(Head(seg).alts, Names(Tail(seg)))

HasGroup(e) == \E i \in 1..Len(e) : \E j \in 1..Len(e[i]) : e[i][j].group

\* _expand_envstr was called for an expression with brace groups
ExpandedGroups == mode = "idle" /\ call.op = "expand" /\ HasGroup(call.name)

\* the segment without the blank text before and after it
RECURSIVE TrimSegment(_)
TrimSegment(seg) ==
  IF seg = <<>> THEN seg
  ELSE IF Head(seg) = Literal(<<" ">>) THEN TrimSegment(Tail(seg))
  ELSE IF Last(seg) = Literal(<<" ">>) THEN TrimSegment(Front(seg))
  ELSE seg

\* C11 as stated: for an expression with brace groups _expand_envstr
\* returns, for every top-level comma-separated segment in input order, one
\* name per element of the Cartesian product of the choices at its
\* positions, the leftmost group varying slowest, duplicates kept.
C11_EverySegment ==
  ExpandedGroups =>
    LET All(e) == Concat([i \in 1..Len(e) |-> Names(e[i])])
    IN  retval = All(call.name)

\* C11, amended: the same for every segment that is not empty, taken
\* without the blank text around it; an empty segment gives no name.
C11_NonEmptySegments ==
  ExpandedGroups =>
    LET NonEmpty(e) ==
          Concat([i \in 1..Len(e) |->
                    IF RenderSegment(e[i]) = <<>> THEN <<>>
                    ELSE Names(TrimSegment(e[i]))])
    IN  retval = NonEmpty(call.name)

\* 'py{27,36}-{dj16,dj17}' gave py27-dj16, py27-dj17, py36-dj16, py36-dj17
C11_Witness ==
  /\ ExpandedGroups
  /\ call.name = ExampleExpr
  /\ retval = <<<<"p", "y", "2", "7", "-", "d", "j", "1", "6">>,
                <<"p", "y", "2", "7", "-", "d", "j", "1", "7">>,
                <<"p", "y", "3", "6", "-", "d", "j", "1", "6">>,
                <<"p", "y", "3", "6", "-", "d", "j", "1", "7">>>>

\* the string holds a brace group: a "{", at least one character that is
\* not "}", and a "}"
HasBraceGroup(s) ==
  \E i \in 1..Len(s) :
    /\ s[i] = "{"
    /\ i + 1 <= Len(s)
    /\ s[i + 1] # "}"
    /\ \E j \in (i + 2)..Len(s) : s[j] = "}"

ExpandedString == mode = "idle" /\ call.op = "_expand_envstr"

\* C12 as stated: for an expression without a brace group _expand_envstr
\* returns the list of its comma-separated segments, same elements, same
\* count, same order, also with consecutive, leading or trailing commas.
C12_AllSegments ==
  ExpandedString /\ ~HasBraceGroup(call.name) => retval = Split(call.name, ",")

\* C12, amended: it returns the segments that are not empty, each without
\* the whitespace around it, in their order.
C12_NonEmptyStripped ==
  ExpandedString /\ ~HasBraceGroup(call.name) =>
    LET Stripped(segs) == [i \in 1..Len(segs) |-> Strip(segs[i])]
    IN  retval = Stripped(SelectSeq(Split(call.name, ","), LAMBDA seg : seg # <<>>))

\* 'a,,b' gave a, b
C12_Witness ==
  /\ ExpandedString
  /\ call.name = <<"a", ",", ",", "b">>
  /\ retval = <<<<"a">>, <<"b">>>>

AppliedFactors == mode = "idle" /\ call.op = "_apply_factors"

\* the string is a line 'expr: v' of FactorLineVals
IsFactorLine(s) ==
  /\ Len(s) > 3
  /\ From(s, Len(s) - 2) = <<":", " ", "v">>
  /\ \A i \in 1..(Len(s) - 3) : s[i] \in FactorChars

\* the expression of the line 'expr: v'
FactorExpr(line) == Sub(line, 1, Len(line) - 3)

\* one of the names the expression expands to has all of its tokens
\* between "-" in the factor set
SomeNameWithin(expr, fs) ==
  \E name \in Range(_expand_envstr(expr)) : Range(Split(name, "-")) \subseteq fs

\* C13: a factor expression matches a factor set exactly when at least one
\* of the names it expands to has all of its '-'-separated tokens in the
\* set: the line 'expr: v' is kept as 'v' then, and dropped otherwise.
C13_FactorMatch ==
  AppliedFactors /\ IsFactorLine(call.name) /\ factors # None =>
    /\ outcome = "returned"
    /\ retval = IF SomeNameWithin(FactorExpr(call.name), factors[1])
                THEN <<"v">> ELSE <<>>

\* 'b,a: v' was kept for the factors {a}, by its second alternative a
C13_Witness ==
  /\ AppliedFactors
  /\ call.name = <<"b", ",", "a", ":", " ", "v">>
  /\ factors = Some({<<"a">>})
  /\ retval = <<"v">>

\* what the lines of ValueVals are: the factor sets of the prefix, if the
\* line has one, and the content after it
LineKind(text) ==
  CASE text = <<"a", ":", " ", "v">> ->
         [prefixed |-> TRUE, sets |-> {{<<"a">>}}, content |-> <<"v">>]
    [] text = <<"b", ":", " ", "w">> ->
         [prefixed |-> TRUE, sets |-> {{<<"b">>}}, content |-> <<"w">>]
    [] OTHER -> [prefixed |-> FALSE, sets |-> {}, content |-> text]

\* the lines the filter keeps for the factor set fs, a prefixed line as its
\* content; blank says whether empty lines are dropped as well
KeptLines(lines, fs, blank) ==
  LET Matches(k) == \E set \in k.sets : set \subseteq fs
      Dropped(k) ==
        IF k.prefixed THEN ~Matches(k) ELSE blank /\ k.content = <<>>
      Kinds(ks) == SelectSeq(ks, LAMBDA k : ~Dropped(k))
      Contents(ks) == [i \in 1..Len(ks) |-> ks[i].content]
  IN  Contents(Kinds([i \in 1..Len(lines) |-> LineKind(lines[i])]))

\* the lines of the value without the whitespace at its two ends
RECURSIVE StrippedLines(_)
StrippedLines(lines) ==
  IF lines = <<>> THEN lines
  ELSE IF Strip(Head(lines)) = <<>> THEN StrippedLines(Tail(lines))
  ELSE IF Strip(Last(lines)) = <<>> THEN StrippedLines(Front(lines))
  ELSE [i \in 1..Len(lines) |->
          LET l == IF i = 1 THEN LStrip(lines[i]) ELSE lines[i]
          IN  IF i = Len(lines) THEN RStrip(l) ELSE l]

\* _apply_factors was called, by a reader with a factor set, for a value
\* of ValueVals
FilteredValue ==
  /\ AppliedFactors
  /\ factors # None
  /\ \A l \in Range(Split(call.name, "\n")) : l \in LineVals

\* C14 as stated: the filter gives the newline-join, in order, of every
\* line without a prefix, verbatim and blank lines included, and of the
\* content of every prefixed line whose expression matches the factor set;
\* no other line is dropped or altered.
C14_BlankLinesKept ==
  FilteredValue =>
    /\ outcome = "returned"
    /\ retval = Join(<<"\n">>, KeptLines(Split(call.name, "\n"), factors[1], FALSE))

\* C14, amended: the same for the value without the whitespace at its two
\* ends, and empty lines are dropped as well.
C14_EmptyLinesDropped ==
  FilteredValue =>
    /\ outcome = "returned"
    /\ retval = Join(<<"\n">>,
                     KeptLines(StrippedLines(Split(call.name, "\n")), factors[1], TRUE))

\* the lines 'x', '', 'a: v' gave 'x', 'v' for the factors {a}
C14_Witness ==
  /\ AppliedFactors
  /\ call.name = <<"x", "\n", "\n", "a", ":", " ", "v">>
  /\ factors = Some({<<"a">>})
  /\ retval = <<"x", "\n", "v">>

\* the value of the first section of the chain that defines the name
RECURSIVE FirstDefined(_, _)
FirstDefined(chain, name) ==
  IF chain = <<>> THEN None
  ELSE IF Head(chain) \in DOMAIN cfg /\ name \in DOMAIN cfg[Head(chain)]
  THEN Some(cfg[Head(chain)][name])
  ELSE FirstDefined(Tail(chain), name)

\* C15: getstring(name, default) gives the raw value of the first section,
\* the reader's own and then the fallback sections as listed, that defines
\* the name, and the default exactly when none of them defines it.
C15_FirstSectionWins ==
  Done("getstring") =>
    LET Chain(x) ==
          /\ outcome = "returned"
          /\ retval = IF x = None THEN call.default ELSE x
    IN  Chain(FirstDefined(<<section_name>> \o fallbacksections, call.name))

\* [T] and [B] define k, [A] does not: with the fallback sections B, T
\* getstring gave the value of B, not the default
C15_Witness ==
  /\ Done("getstring")
  /\ fallbacksections = <<SecB, SecT>>
  /\ SecA \in DOMAIN cfg /\ KeyK \notin DOMAIN cfg[SecA]
  /\ SecT \in DOMAIN cfg /\ KeyK \in DOMAIN cfg[SecT]
  /\ call.default = Some(<<"d">>)
  /\ retval = Some(<<"b">>)

\* the placeholder has the cross-section form {[section]key}
CrossSectionForm(mt) == mt.sub_type = None /\ StartsWith(mt.value, <<"[">>)

\* the string holds placeholders, none of them of the cross-section form
OtherPlaceholdersOnly(s) ==
  /\ \E i \in 1..Len(s) : MatchAt(s, i).ok
  /\ \A i \in 1..Len(s) : MatchAt(s, i).ok => ~CrossSectionForm(MatchAt(s, i))

CrossonlyGetstring == Done("getstring") /\ call.crossonly

\* C16: in cross-only mode only the placeholders {[section]key} are
\* replaced, by their value resolved in cross-only mode again; every other
\* placeholder comes back character for character, and none of them
\* raises an error.
C16_CrossOnly ==
  CrossonlyGetstring =>
    /\ OtherPlaceholdersOnly(cfg[SecA][KeyK]) => Returned(cfg[SecA][KeyK])
    /\ (/\ cfg[SecA][KeyK] = <<"{", "[", "B", "]", "j", "}">>
        /\ KeyJ \in DOMAIN cfg[SecB]
        /\ OtherPlaceholdersOnly(cfg[SecB][KeyJ]))
       => Returned(cfg[SecB][KeyJ])

\* the last line of the command block that is not blank ends in a
\* backslash
Unterminated(block) ==
  LET Ends(lines) == lines # <<>> /\ EndsWith(RStrip(Last(lines)), <<"\\">>)
  IN  Ends(SelectSeq(Split(block, "\n"), LAMBDA l : Strip(l) # <<>>))

\* the command block of getargvlist("c"): the value of c, or the value of
\* [B] j when c is the reference {[B]j} to it
CommandBlock ==
  IF cfg[SecA][KeyC] = <<"{", "[", "B", "]", "j", "}">> /\ KeyJ \in DOMAIN cfg[SecB]
  THEN cfg[SecB][KeyJ]
  ELSE cfg[SecA][KeyC]

\* getargvlist("c") ended and [A] has a command block c
GotArgvlist == Done("getargvlist") /\ KeyC \in DOMAIN cfg[SecA]

\* C17: when the last non-blank line of the command block ends in a
\* backslash, also with blank lines after it, getargvlist fails with the
\* configuration error and returns no list.
C17_UnterminatedFails ==
  GotArgvlist /\ Unterminated(CommandBlock) =>
    /\ outcome = "raised"
    /\ error = "ConfigError: line-continuation ends nowhere"

\* the block 'f \' followed by blank lines, imported from [B] j, failed
C17_Witness ==
  /\ GotArgvlist
  /\ cfg[SecA][KeyC] = <<"{", "[", "B", "]", "j", "}">>
  /\ cfg[SecB][KeyJ] = <<"f", " ", "\\", "\n", "\n">>
  /\ outcome = "raised"
  /\ error = "ConfigError: line-continuation ends nowhere"

\* C18: every argument vector of the list getargvlist returns is not
\* empty, for every command block and every list of positional arguments,
\* also for a command that is only {posargs} or [] without positional
\* arguments.
C18_NoEmptyVector ==
  Done("getargvlist") /\ outcome = "returned" =>
    \A i \in 1..Len(retval) : retval[i] # <<>>

\* the command is one placeholder {[section]key} and nothing else
ExactReference(command) ==
  /\ MatchAt(command, 1).ok
  /\ MatchAt(command, 1).end = Len(command)
  /\ CrossSectionForm(MatchAt(command, 1))

\* a call of getargvlist is importing the command it has completed
Importing(f) == f.kind = "argvlist" /\ f.phase \in {"replaced", "sub"}

\* C19: a completed logical command is imported (resolved in cross-only
\* mode and split again) only when, trimmed, it is exactly one placeholder
\* {[section]key}; every other command, also one that begins with such a
\* placeholder and goes on, is tokenized into words and gives exactly one
\* argument vector.
C19_OnlyExactReference ==
  /\ \A i \in 1..Len(frames) :
       Importing(frames[i]) => ExactReference(Strip(frames[i].cur))
  /\ (/\ GotArgvlist
      /\ outcome = "returned"
      /\ ~HasChar(cfg[SecA][KeyC], "\n")
      /\ ~ExactReference(Strip(cfg[SecA][KeyC])))
     => Len(retval) = 1

\* the arguments shell-quoted and joined by blanks; the arguments of the
\* model hold no quote and no backslash, so that quoting an argument is
\* putting it between double quotes when it is empty or holds a blank
QuotedJoin(args) ==
  LET Quoted(arg) ==
        IF arg = <<>> \/ HasChar(arg, " ") THEN <<"\"">> \o arg \o <<"\"">> ELSE arg
  IN  Join(<<" ">>, [i \in 1..Len(args) |-> Quoted(args[i])])

\* processcommand is about to handle a word
AtWord ==
  /\ mode = "run"
  /\ frames # <<>>
  /\ Last(frames).kind = "processcommand"
  /\ Last(frames).wordsq # <<>>

\* the word is replaced by the positional arguments: {posargs}, [], or
\* {posargs:default} when positional arguments were supplied
PosargsWord(w) ==
  \/ w = <<"{", "p", "o", "s", "a", "r", "g", "s", "}">>
  \/ w = <<"[", "]">>
  \/ (/\ StartsWith(w, <<"{", "p", "o", "s", "a", "r", "g", "s", ":">>)
      /\ EndsWith(w, <<"}">>)
      /\ posargs # <<>>)

\* the step handles a word that the positional arguments replace, and
\* puts text in its place
ReplacedBy(text) ==
  AtWord /\ PosargsWord(Head(Last(frames).wordsq)) =>
    /\ Len(frames') = Len(frames)
    /\ Last(frames').newcommand = Last(frames).newcommand \o text
    /\ Last(frames').wordsq = Tail(Last(frames).wordsq)

\* getargvlist("c") returned the list for the command block and the
\* positional arguments
Gave(block, args, list) ==
  GotArgvlist /\ cfg[SecA][KeyC] = block /\ posargs = args =>
    outcome = "returned" /\ retval = list

\* {posargs:default} without positional arguments is the default, resolved
\* like any other word ('e {posargs:{env:X:d}} []' gives e, d), and the
\* token is replaced where it stands ('x[] {posargs}y' with a, b gives
\* x[], a, by)
DefaultAndPlace ==
  /\ Gave(<<"e", " ", "{", "p", "o", "s", "a", "r", "g", "s", ":", "{", "e",
            "n", "v", ":", "X", ":", "d", "}", "}", " ", "[", "]">>,
          <<>>, <<<<<<"e">>, <<"d">>>>>>)
  /\ Gave(<<"x", "[", "]", " ", "{", "p", "o", "s", "a", "r", "g", "s", "}", "y">>,
          <<<<"a">>, <<"b">>>>, <<<<<<"x", "[", "]">>, <<"a">>, <<"b", "y">>>>>>)

\* C20 as stated: in processcommand every word {posargs} or [], and every
\* word {posargs:default} when positional arguments were supplied, is
\* replaced by the positional arguments, shell-quoted and joined by
\* blanks; without positional arguments {posargs:default} is the default,
\* resolved like any other word; wherever the token stands.
C20_AllPosargs ==
  [][ReplacedBy(QuotedJoin(posargs))]_vars /\ []DefaultAndPlace

\* C20, amended: the positional arguments that are not empty replace the
\* word.
C20_NonEmptyPosargs ==
  [][ReplacedBy(QuotedJoin(SelectSeq(posargs, LAMBDA x : x # <<>>)))]_vars
  /\ []DefaultAndPlace

\* 'x[] {posargs}y' with the positional arguments 'a b' and '' gave the
\* one vector x[], 'a by'
C20_Witness ==
  /\ GotArgvlist
  /\ cfg[SecA][KeyC] =
       <<"x", "[", "]", " ", "{", "p", "o", "s", "a", "r", "g", "s", "}", "y">>
  /\ posargs = <<<<"a", " ", "b">>, <<>>>>
  /\ retval = <<<<<<"x", "[", "]">>, <<"a", " ", "b", "y">>>>>>
\* the number of groups open at the end of s: a '{' that no backslash
\* precedes opens one, a '}' closes the innermost open one
RECURSIVE OpenGroups(_, _, _)
OpenGroups(s, i, n) ==
  IF i > Len(s) THEN n
  ELSE IF s[i] = "{" /\ (i = 1 \/ s[i - 1] # "\\")
  THEN OpenGroups(s, i + 1, n + 1)
  ELSE IF s[i] = "}" /\ n > 0 THEN OpenGroups(s, i + 1, n - 1)
  ELSE OpenGroups(s, i + 1, n)

\* the part of the command the scanner has read
Scanned == Sub(Last(frames).value, 1, Last(frames).pos - 1)

\* the scanner has just read a whitespace character that follows one that
\* is not whitespace
AfterFirstBlank ==
  /\ Scanning
  /\ Len(Scanned) >= 2
  /\ Scanned[Len(Scanned)] \in Whitespace
  /\ Scanned[Len(Scanned) - 1] \notin Whitespace

\* C21: in CommandParser.words, after each character the depth counter is
\* the number of the open unescaped '{' (so it is never negative and '\{'
\* opens no group), and whitespace ends the word exactly when no group is
\* open: the word then holds the whitespace alone.
C21_DepthCountsOpenGroups ==
  /\ Scanning => Last(frames).depth = OpenGroups(Scanned, 1, 0)
  /\ AfterFirstBlank =>
       (Strip(Last(frames).word) = <<>> <=> OpenGroups(Scanned, 1, 0) = 0)
\* the number of the characters c in s
Count(s, c) == Cardinality({i \in 1..Len(s) : s[i] = c})

\* words() has returned the words ws for the command
GotWords(command, ws) == Done("words") /\ call.name = command /\ retval = ws

\* C24 as stated: the words returned by CommandParser.words, concatenated,
\* are the command without its trailing whitespace, and no word is empty.
C24_TrailingRunRemoved ==
  Done("words") =>
    /\ Concat(retval) = RStrip(call.name)
    /\ \A i \in 1..Len(retval) : retval[i] # <<>>

\* C24 amended: the words returned by CommandParser.words, concatenated,
\* are the command without its trailing whitespace when the command has as
\* many '{' as '}', and the whole command otherwise; no word is empty.
C24_Lossless ==
  Done("words") =>
    /\ Concat(retval) = IF Count(call.name, "{") = Count(call.name, "}")
                        THEN RStrip(call.name) ELSE call.name
    /\ \A i \in 1..Len(retval) : retval[i] # <<>>

\* 'a a ' gives 'a', ' ', 'a', and '{a ' gives '{a ' in another run
C24_Witness ==
  \/ GotWords(<<"a", " ", "a", " ">>, <<<<"a">>, <<" ">>, <<"a">>>>)
  \/ GotWords(<<"{", "a", " ">>, <<<<"{", "a", " ">>>>)
\* a call of SectionReader._replace that has pushed its entry
IsReplace(f) == f.kind = "replace"

\* the entries pushed by the _replace calls in progress, outermost first
PendingEntries ==
  LET calls == SelectSeq(frames, IsReplace)
  IN  [i \in 1..Len(calls) |-> calls[i].entry]

\* C22: SectionReader._replace leaves _subststack as it found it, whether
\* it returns or raises: at every moment the stack holds exactly the
\* entries of the _replace calls in progress, in the order of the calls, so
\* each call pops the entry it pushed, the assertion of the finally clause
\* never fails, and the stack is empty when no call is in progress.
C22_StackRestored ==
  /\ subststack = PendingEntries
  /\ error # "AssertionError"
  /\ mode = "idle" => subststack = <<>>

\* a nested _replace has raised and popped its entry; the call around it
\* still has its own entry on the stack
C22_Witness ==
  /\ mode = "raise"
  /\ error # "RecursionError"
  /\ subststack # <<>>
  /\ subststack = PendingEntries
  /\ Last(frames).kind = "replace"
  /\ Last(frames).wait = "section"
\* SetenvDict.get(name) is about to run for the name of the innermost call
GetStarts ==
  /\ Running("setenvget")
  /\ Top(Machine).phase = "start"

\* the step is reader._setenv[n] = value
SetitemOf(n) ==
  /\ mode = "idle"
  /\ call'.op = "setenv.__setitem__"
  /\ call'.name = n
  /\ setenv'.resolved[n] = call'.default[1]

\* the step is the end of get(n) for a name that was not cached: its
\* definition holds no placeholder, or reader._replace has returned its value
ResolvedOf(n) ==
  /\ frames # <<>>
  /\ Top(Machine).kind = "setenvget"
  /\ Top(Machine).name = n
  /\ n \notin DOMAIN setenv.resolved
  /\ n \in DOMAIN setenv.definitions
  /\ mode' = "return"
  /\ retval' = Some(setenv'.resolved[n])
  /\ \/ /\ mode = "run"
        /\ ~HasChar(setenv.definitions[n], "{")
        /\ setenv'.resolved[n] = setenv.definitions[n]
     \/ /\ mode = "return"
        /\ Top(Machine).phase = "await"
        /\ setenv'.resolved[n] = retval

\* the cached value of n is new or has changed
CacheWritten(n) ==
  n \notin DOMAIN setenv.resolved \/ setenv'.resolved[n] # setenv.resolved[n]

\* C23: for the SetenvDict, through any sequence of get, __getitem__ and
\* __setitem__: every cached name is a defined name; the lookup stack is
\* empty between the calls; a name is cached only by __setitem__ or at the
\* end of a get whose resolution returned (a step that raises or that meets
\* a cycle caches nothing), a cached value changes only by __setitem__, and
\* a get of a cached name returns the cached value and changes nothing.
C23_CacheSound ==
  /\ [](DOMAIN setenv.resolved \subseteq DOMAIN setenv.definitions)
  /\ [](mode = "idle" => setenv.lookupstack = <<>>)
  /\ [][/\ DOMAIN setenv.resolved \subseteq DOMAIN setenv'.resolved
        /\ \A n \in DOMAIN setenv'.resolved :
             CacheWritten(n) => SetitemOf(n) \/ ResolvedOf(n)
        /\ mode = "raise" => setenv'.resolved = setenv.resolved
        /\ (GetStarts /\ Top(Machine).name \in Range(setenv.lookupstack)) =>
             setenv' = setenv
        /\ (GetStarts /\ Top(Machine).name \in DOMAIN setenv.resolved) =>
             /\ mode' = "return"
             /\ retval' = Some(setenv.resolved[Top(Machine).name])
             /\ setenv' = setenv]_vars

\* Y = '{env:X}' was resolved after X was overwritten with '2': get('Y')
\* returned '2', both names are cached
C23_Witness ==
  /\ Done("setenv.get")
  /\ call.name = EnvY
  /\ outcome = "returned"
  /\ retval = Some(<<"2">>)
  /\ EnvY \in DOMAIN setenv.definitions
  /\ setenv.definitions[EnvY] = <<"{", "e", "n", "v", ":", "X", "}">>
  /\ setenv.resolved = [n \in {EnvX, EnvY} |-> <<"2">>]
  /\ setenv.lookupstack = <<>>

====
